---------------------------- MODULE Spec2Model ----------------------------
(***************************************************************************)
(* Bank reconciliation backend (backend/main.py, backend/processing.py).   *)
(*                                                                         *)
(* The state is the in-memory store `db` of main.py: the bank records, the *)
(* accounting records and the list of matched pairs.  Every HTTP handler   *)
(* that reads or writes `db` is one action.                                *)
(*                                                                         *)
(* Units.  An amount is a float; it is held here as an integer number of   *)
(* 1/25600, so that one cent is 256 units and n/256 is 100 * n units.  The *)
(* raw amounts of an ingested row are multiples of 1/256 (binary fractions *)
(* are exact floats, so round(x, 2) is modelled exactly); the amounts the  *)
(* code rounds are multiples of a cent.                                    *)
(***************************************************************************)
EXTENDS Integers, Sequences, FiniteSets, TLC

\* ---- bounds of the model ------------------------------------------------
MaxRows == 2      \* rows of one ingested file
MaxDate == 2      \* dates are 1..MaxDate (days)
MaxRaw  == 2      \* scale of the raw amounts, in 1/256
MaxIds  == 4      \* ids handed out over the whole session
MaxList == 2      \* length of the id list of a manual group request
MaxCell == 5      \* characters of the text of an amount cell
MaxSuspended == 1 \* requests suspended at an await at one time
MaxLoopIds == 3   \* ids handed out over a session of interleaved requests
MaxUuid == 4      \* uuid4 values are 0..MaxUuid - 1
HexTail == 2      \* values of the hex digits of a uuid after the 8th
MaxMiddle == 3    \* rows of a sheet between its leading rows and its data

VARIABLES
    bank_transactions,        \* db["bank_transactions"]
    accounting_transactions,  \* db["accounting_transactions"]
    matched_pairs,            \* db["matched_pairs"]
    next_id,                  \* the next fresh id (uuid4 never repeats)
    response,                 \* the response on its way to the client
    raw_input,                \* the raw cell or file handed to the ingestion
    normalized,               \* what the ingestion made of raw_input
    suspended                 \* the requests suspended at an await

\* the two variables of the ingestion
ingest == <<raw_input, normalized>>

vars == <<bank_transactions, accounting_transactions, matched_pairs,
          next_id, response, raw_input, normalized, suspended>>

\* ---- small helpers --------------------------------------------------------
Abs(x) == IF x < 0 THEN -x ELSE x

MinOf(S) == CHOOSE x \in S : \A y \in S : x <= y

Range(s) == {s[i] : i \in DOMAIN s}

SeqsUpTo(S, n) == UNION {[1..k -> S] : k \in 0..n}

\* the list without its k-th element
without(s, k) == SubSeq(s, 1, k - 1) \o SubSeq(s, k + 1, Len(s))

\* ---- models.py ----------------------------------------------------------
\* Transaction(id, date, description, amount, type); the description plays
\* no part in any decision and is left out.
Transaction(tx_id, tx_date, tx_amount, tx_type) ==
    [id |-> tx_id, date |-> tx_date, amount |-> tx_amount, type |-> tx_type]

MatchedPair(bank_tx_id, acc_tx_id) ==
    [bankTransactionId |-> bank_tx_id, accountingTransactionId |-> acc_tx_id]

\* Python's None, as the result of a lookup.
None == [id |-> 0, date |-> 0, amount |-> 0, type |-> "none"]

\* ---- rounding -------------------------------------------------------------
\* 0.01, the second decimal of round(x, 2)
cent == 256

\* n/256 as an amount
Raw(n) == 100 * n

\* round(x, 2): the nearest multiple of a cent, ties to even.
Round2(x) ==
    LET a == Abs(x)
        q == a \div cent
        r == a % cent
        n == IF 2 * r < cent THEN q
             ELSE IF 2 * r > cent THEN q + 1
             ELSE IF q % 2 = 0 THEN q ELSE q + 1
    IN  IF x < 0 THEN 0 - n * cent ELSE n * cent


\* ---- the format registry ------------------------------------------------
\* FILE_FORMAT_CONFIGS maps a format id to its configuration; only the
\* "type" entry (the side the file belongs to) is used by main.py.
FILE_FORMAT_CONFIGS ==
    [fmt \in {"bancolombia_csv_9col", "siesa_xlsx"} |->
        [type |-> IF fmt = "siesa_xlsx" THEN "accounting" ELSE "bank"]]

\* format ids a request may carry
FormatIds == {"bancolombia_csv_9col", "siesa_xlsx", "unknown_fmt"}

\* ---- the processed DataFrames an ingestion can produce --------------------
Dates == 1..MaxDate

\* raw movements of a bank row: they round to -0.01, 0.01 and 0.03
RawAmounts == {Raw(0 - MaxRaw), Raw(MaxRaw + 1), Raw(4 * MaxRaw)}

\* raw <<debito, credito>> of an accounting row: a debit, a credit, and a
\* row that carries both
RawColumns ==
    {<<Raw(MaxRaw), 0>>, <<0, Raw(MaxRaw)>>, <<Raw(MaxRaw + 1), Raw(1)>>}

\* one row of a processed bank frame: fecha_norm, movimiento.  To keep the
\* frames few, only the movement MaxRaw + 1 falls on a later day.
BankRows ==
    {r \in [fecha_norm : Dates, movimiento : RawAmounts] :
        r.movimiento = Raw(MaxRaw + 1) \/ r.fecha_norm = 1}

\* one row of a processed accounting frame: fecha_norm, debito, credito;
\* likewise the net credits all fall on the first day
AccountingRows ==
    {r \in {[fecha_norm |-> d, debito |-> c[1], credito |-> c[2]] :
               d \in Dates, c \in RawColumns} :
        r.debito > r.credito \/ r.fecha_norm = 1}

\* the non-empty frames; an empty frame is the sequence << >>
BankFrames == SeqsUpTo(BankRows, MaxRows) \ {<< >>}

AccountingFrames == SeqsUpTo(AccountingRows, MaxRows) \ {<< >>}

\* ---- main.py helpers ------------------------------------------------------
TransactionList(tx_type) ==
    IF tx_type = "bank" THEN bank_transactions ELSE accounting_transactions

\* next((tx for tx in db[list_key] if tx.id == tx_id), None)
find_transaction(tx_id, tx_type) ==
    LET txs  == TransactionList(tx_type)
        hits == {i \in DOMAIN txs : txs[i].id = tx_id}
    IN  IF hits = {} THEN None ELSE txs[MinOf(hits)]

\* (faulty variant) the amount of a row is stored as it is read
row_amount_unrounded(row, tx_type) ==
    IF tx_type = "bank" THEN row.movimiento
    ELSE row.debito - row.credito

\* the amount of one processed row, rounded to 2 decimals
row_amount(row, tx_type) ==
    IF tx_type = "bank" THEN Round2(row.movimiento)
    ELSE Round2(row.debito - row.credito)

\* one Transaction per row, in row order, each with a fresh id
dataframe_to_transactions(df, tx_type, first_id) ==
    [i \in 1..Len(df) |->
        Transaction(first_id + i - 1, df[i].fecha_norm,
                    row_amount(df[i], tx_type), tx_type)]

\* any(p.bankTransactionId == tx_id for p in matched_pairs_list)
bank_is_matched(tx_id, pairs) ==
    \E i \in DOMAIN pairs : pairs[i].bankTransactionId = tx_id

\* any(p.accountingTransactionId == tx_id for p in matched_pairs_list)
accounting_is_matched(tx_id, pairs) ==
    \E i \in DOMAIN pairs : pairs[i].accountingTransactionId = tx_id

\* ---- the result of a handler ------------------------------------------------
\* status: the HTTP status; detail: the kind of answer; tx_id: the id an
\* error names (0 if none); new_pairs: the pairs the handler appends;
\* amounts: the two amounts  that the amount check of a manual
\* handler compares (<<0, 0>> when no check is made);
\* validated: how many ids of the list had passed the validation loop when
\* the handler answered.
Reject(code, kind, which, passed) ==
    [status |-> code, detail |-> kind, tx_id |-> which,
     new_pairs |-> << >>, amounts |-> <<0, 0>>, validated |-> passed]

Accept(kind, pairs, compared, passed) ==
    [status |-> 200, detail |-> kind, tx_id |-> 0,
     new_pairs |-> pairs, amounts |-> compared, validated |-> passed]

\* tolerance = 0.01
tolerance == cent

\* the c in 0..63 for which the float subtraction (c + 1)/100 - c/100 gives
\* less than the float 0.01 (0.03 - 0.02 = 0.009999999999999998); the
\* subtraction of two amounts that are 0, or 2 or more cents apart, is on
\* the side of 0.01 that the exact difference is on
float_gap_below_cent ==
    {2, 5, 7, 8, 10, 11, 14, 17, 20, 23, 28, 34, 40, 46, 56}

\* abs(x - y) < tolerance as the floats x and y give it
amount_match(x, y) ==
    \/ Abs(x - y) < tolerance
    \/ /\ Abs(x - y) = tolerance
       /\ MinOf({Abs(x), Abs(y)}) \div cent \in float_gap_below_cent

\* what of a result is kept as the response of the request; warning:
\* whether the message starts with the amount warning.  Four fields record
\* the history of the request: validated (see above), requested (the
\* length of the id list of a group request), discarded (the pairs an
\* upload threw away) and after_auto (the request before this one was an
\* automatic pass).
ResponseOf(op, res) ==
    [op |-> op, status |-> res.status, detail |-> res.detail,
     created |-> Len(res.new_pairs),
     warning |-> ~ amount_match(res.amounts[1], res.amounts[2]),
     validated |-> res.validated, requested |-> 0, discarded |-> 0,
     after_auto |-> FALSE]

\* total += tx.amount over a list of transactions
RECURSIVE sum_amounts(_)
sum_amounts(txs) ==
    IF txs = << >> THEN 0 ELSE Head(txs).amount + sum_amounts(Tail(txs))

\* round(total, 2): the sum rounded to 2 decimals (of whole cents it is the
\* exact sum, the rounding only removes the float error)
total_amount(txs) == Round2(sum_amounts(txs))

\* (faulty variant) the 1 to 1 handler without the tests against the pairs
reconcile_manual_result_unchecked(bank_tx_id, acc_tx_id) ==
    LET bank_tx == find_transaction(bank_tx_id, "bank")
        acc_tx  == find_transaction(acc_tx_id, "accounting")
    IN  IF bank_tx = None
        THEN Reject(404, "not_found", bank_tx_id, 0)
        ELSE IF acc_tx = None
        THEN Reject(404, "not_found", acc_tx_id, 0)
        ELSE Accept("reconciled", << MatchedPair(bank_tx_id, acc_tx_id) >>,
                    <<bank_tx.amount, acc_tx.amount>>, 0)

\* ---- POST /api/transactions/reconcile/manual (1 to 1) -----------------------
reconcile_manual_result(bank_tx_id, acc_tx_id) ==
    LET bank_tx == find_transaction(bank_tx_id, "bank")
        acc_tx  == find_transaction(acc_tx_id, "accounting")
    IN  IF bank_is_matched(bank_tx_id, matched_pairs)
        THEN Reject(400, "already_reconciled", bank_tx_id, 0)
        ELSE IF accounting_is_matched(acc_tx_id, matched_pairs)
        THEN Reject(400, "already_reconciled", acc_tx_id, 0)
        ELSE IF bank_tx = None
        THEN Reject(404, "not_found", bank_tx_id, 0)
        ELSE IF acc_tx = None
        THEN Reject(404, "not_found", acc_tx_id, 0)
        ELSE Accept("reconciled", << MatchedPair(bank_tx_id, acc_tx_id) >>,
                    <<bank_tx.amount, acc_tx.amount>>, 0)

\* ---- the validation loop of the two group handlers --------------------------
\* Walks the id list in order; a repeated id is skipped; the first id that
\* is unknown on `tx_type`, or known and already in a pair, ends the walk
\* with that error.  txs are the transactions that passed, in order.
\* (faulty variant) the walk without the check against the existing pairs
RECURSIVE validate_ids_unchecked(_, _, _, _, _)
validate_ids_unchecked(tx_ids, tx_type, i, processed_ids, txs) ==
    IF i > Len(tx_ids)
    THEN [err |-> "none", tx_id |-> 0, txs |-> txs]
    ELSE IF tx_ids[i] \in processed_ids
    THEN validate_ids_unchecked(tx_ids, tx_type, i + 1, processed_ids, txs)
    ELSE LET tx == find_transaction(tx_ids[i], tx_type)
         IN  IF tx = None
             THEN [err |-> "not_found", tx_id |-> tx_ids[i], txs |-> txs]
             ELSE validate_ids_unchecked(tx_ids, tx_type, i + 1,
                                         processed_ids \cup {tx_ids[i]},
                                         Append(txs, tx))

\* (faulty variant) the walk without processed_ids: a repeated id passes again
RECURSIVE validate_ids_repeating(_, _, _, _, _)
validate_ids_repeating(tx_ids, tx_type, i, processed_ids, txs) ==
    IF i > Len(tx_ids)
    THEN [err |-> "none", tx_id |-> 0, txs |-> txs]
    ELSE LET tx == find_transaction(tx_ids[i], tx_type)
             matched == IF tx_type = "bank"
                        THEN bank_is_matched(tx_ids[i], matched_pairs)
                        ELSE accounting_is_matched(tx_ids[i], matched_pairs)
         IN  IF tx = None
             THEN [err |-> "not_found", tx_id |-> tx_ids[i], txs |-> txs]
             ELSE IF matched
             THEN [err |-> "already_reconciled", tx_id |-> tx_ids[i],
                   txs |-> txs]
             ELSE validate_ids_repeating(tx_ids, tx_type, i + 1, processed_ids,
                                         Append(txs, tx))

RECURSIVE validate_ids(_, _, _, _, _)
validate_ids(tx_ids, tx_type, i, processed_ids, txs) ==
    IF i > Len(tx_ids)
    THEN [err |-> "none", tx_id |-> 0, txs |-> txs]
    ELSE IF tx_ids[i] \in processed_ids
    THEN validate_ids(tx_ids, tx_type, i + 1, processed_ids, txs)
    ELSE LET tx == find_transaction(tx_ids[i], tx_type)
             matched == IF tx_type = "bank"
                        THEN bank_is_matched(tx_ids[i], matched_pairs)
                        ELSE accounting_is_matched(tx_ids[i], matched_pairs)
         IN  IF tx = None
             THEN [err |-> "not_found", tx_id |-> tx_ids[i], txs |-> txs]
             ELSE IF matched
             THEN [err |-> "already_reconciled", tx_id |-> tx_ids[i],
                   txs |-> txs]
             ELSE validate_ids(tx_ids, tx_type, i + 1,
                               processed_ids \cup {tx_ids[i]},
                               Append(txs, tx))

\* ---- POST .../reconcile/manual/many_to_one (1 bank, many accounting) --------
\* (faulty variant) the pairs are appended inside the validation loop, so the ids
\* that passed before a failing one are committed
reconcile_manual_many_to_one_partial(bank_tx_id, acc_tx_ids) ==
    LET bank_tx == find_transaction(bank_tx_id, "bank")
        v       == validate_ids(acc_tx_ids, "accounting", 1, {}, << >>)
        pairs   == [k \in 1..Len(v.txs) |->
                       MatchedPair(bank_tx_id, v.txs[k].id)]
    IN  IF acc_tx_ids = << >>
        THEN Reject(400, "empty_list", 0, 0)
        ELSE IF bank_tx = None
        THEN Reject(404, "not_found", bank_tx_id, 0)
        ELSE IF bank_is_matched(bank_tx_id, matched_pairs)
        THEN Reject(400, "already_reconciled", bank_tx_id, 0)
        ELSE IF v.err = "not_found"
        THEN [Reject(404, "not_found", v.tx_id, Len(v.txs))
                 EXCEPT !.new_pairs = pairs]
        ELSE IF v.err = "already_reconciled"
        THEN [Reject(400, "already_reconciled", v.tx_id, Len(v.txs))
                 EXCEPT !.new_pairs = pairs]
        ELSE Accept("reconciled", pairs,
                    <<bank_tx.amount, total_amount(v.txs)>>, Len(v.txs))

reconcile_manual_many_to_one_result(bank_tx_id, acc_tx_ids) ==
    LET bank_tx == find_transaction(bank_tx_id, "bank")
        v       == validate_ids(acc_tx_ids, "accounting", 1, {}, << >>)
    IN  IF acc_tx_ids = << >>
        THEN Reject(400, "empty_list", 0, 0)
        ELSE IF bank_tx = None
        THEN Reject(404, "not_found", bank_tx_id, 0)
        ELSE IF bank_is_matched(bank_tx_id, matched_pairs)
        THEN Reject(400, "already_reconciled", bank_tx_id, 0)
        ELSE IF v.err = "not_found"
        THEN Reject(404, "not_found", v.tx_id, Len(v.txs))
        ELSE IF v.err = "already_reconciled"
        THEN Reject(400, "already_reconciled", v.tx_id, Len(v.txs))
        ELSE Accept("reconciled",
                    [k \in 1..Len(v.txs) |->
                        MatchedPair(bank_tx_id, v.txs[k].id)],
                    <<bank_tx.amount, total_amount(v.txs)>>, Len(v.txs))

\* (faulty variant) a sum that does not match the accounting amount is an
\* error
reconcile_manual_one_to_many_strict(acc_tx_id, bank_tx_ids) ==
    LET acc_tx == find_transaction(acc_tx_id, "accounting")
        v      == validate_ids(bank_tx_ids, "bank", 1, {}, << >>)
    IN  IF bank_tx_ids = << >>
        THEN Reject(400, "empty_list", 0, 0)
        ELSE IF acc_tx = None
        THEN Reject(404, "not_found", acc_tx_id, 0)
        ELSE IF accounting_is_matched(acc_tx_id, matched_pairs)
        THEN Reject(400, "already_reconciled", acc_tx_id, 0)
        ELSE IF v.err = "not_found"
        THEN Reject(404, "not_found", v.tx_id, Len(v.txs))
        ELSE IF v.err = "already_reconciled"
        THEN Reject(400, "already_reconciled", v.tx_id, Len(v.txs))
        ELSE IF ~ amount_match(acc_tx.amount, total_amount(v.txs))
        THEN Reject(400, "amount_mismatch", 0, Len(v.txs))
        ELSE Accept("reconciled",
                    [k \in 1..Len(v.txs) |->
                        MatchedPair(v.txs[k].id, acc_tx_id)],
                    <<acc_tx.amount, total_amount(v.txs)>>, Len(v.txs))

\* ---- POST .../reconcile/manual/one_to_many (many bank, 1 accounting) --------
reconcile_manual_one_to_many_result(acc_tx_id, bank_tx_ids) ==
    LET acc_tx == find_transaction(acc_tx_id, "accounting")
        v      == validate_ids(bank_tx_ids, "bank", 1, {}, << >>)
    IN  IF bank_tx_ids = << >>
        THEN Reject(400, "empty_list", 0, 0)
        ELSE IF acc_tx = None
        THEN Reject(404, "not_found", acc_tx_id, 0)
        ELSE IF accounting_is_matched(acc_tx_id, matched_pairs)
        THEN Reject(400, "already_reconciled", acc_tx_id, 0)
        ELSE IF v.err = "not_found"
        THEN Reject(404, "not_found", v.tx_id, Len(v.txs))
        ELSE IF v.err = "already_reconciled"
        THEN Reject(400, "already_reconciled", v.tx_id, Len(v.txs))
        ELSE Accept("reconciled",
                    [k \in 1..Len(v.txs) |->
                        MatchedPair(v.txs[k].id, acc_tx_id)],
                    <<acc_tx.amount, total_amount(v.txs)>>, Len(v.txs))

\* ---- the unmatched views ---------------------------------------------------
matched_bank_ids(pairs) == {pairs[i].bankTransactionId : i \in DOMAIN pairs}

matched_acc_ids(pairs) == {pairs[i].accountingTransactionId : i \in DOMAIN pairs}

\* (faulty variant) the bank view filtered with the ids of the other side
unmatched_bank_txs_by_acc_ids ==
    SelectSeq(bank_transactions,
              LAMBDA tx : tx.id \notin matched_acc_ids(matched_pairs))

\* [tx for tx in db["bank_transactions"] if tx.id not in matched_bank_ids]
unmatched_bank_txs ==
    SelectSeq(bank_transactions,
              LAMBDA tx : tx.id \notin matched_bank_ids(matched_pairs))

\* [tx for tx in db["accounting_transactions"] if tx.id not in matched_acc_ids]
unmatched_acc_txs ==
    SelectSeq(accounting_transactions,
              LAMBDA tx : tx.id \notin matched_acc_ids(matched_pairs))

\* ---- transactions_to_dataframe ----------------------------------------------
\* bank: the amount goes to the column movimiento
bank_to_dataframe(transactions) ==
    [i \in 1..Len(transactions) |->
        [tx_id_ref  |-> transactions[i].id,
         fecha_norm |-> transactions[i].date,
         movimiento |-> transactions[i].amount]]

\* (faulty variant) the credit is rebuilt with the sign of the net amount
accounting_to_dataframe_signed_credit(transactions) ==
    [i \in 1..Len(transactions) |->
        [tx_id_ref  |-> transactions[i].id,
         fecha_norm |-> transactions[i].date,
         debito     |-> IF transactions[i].amount >= 0
                        THEN transactions[i].amount ELSE 0,
         credito    |-> IF transactions[i].amount < 0
                        THEN transactions[i].amount ELSE 0]]

\* accounting: debit and credit are rebuilt from the net amount
accounting_to_dataframe(transactions) ==
    [i \in 1..Len(transactions) |->
        [tx_id_ref  |-> transactions[i].id,
         fecha_norm |-> transactions[i].date,
         debito     |-> IF transactions[i].amount >= 0
                        THEN transactions[i].amount ELSE 0,
         credito    |-> IF transactions[i].amount < 0
                        THEN 0 - transactions[i].amount ELSE 0]]

\* (faulty variant) the net movement with the wrong sign on the credit
ledger_with_movement_sum(df_ledger) ==
    [i \in 1..Len(df_ledger) |->
        [tx_id_ref  |-> df_ledger[i].tx_id_ref,
         fecha_norm |-> df_ledger[i].fecha_norm,
         movimiento |-> df_ledger[i].debito + df_ledger[i].credito]]

\* ---- processing.reconcile_data ----------------------------------------------
\* df_ledger_copy[movimiento] = debito - credito
ledger_with_movement(df_ledger) ==
    [i \in 1..Len(df_ledger) |->
        [tx_id_ref  |-> df_ledger[i].tx_id_ref,
         fecha_norm |-> df_ledger[i].fecha_norm,
         movimiento |-> df_ledger[i].debito - df_ledger[i].credito]]

\* (faulty variant) the sort on movimiento alone: rows of one amount keep the
\* order of the file
sorts_before_undated(df, i, j) ==
    \/ df[i].movimiento < df[j].movimiento
    \/ /\ df[i].movimiento = df[j].movimiento
       /\ i < j

\* row i comes before row j in sort_values(by=[movimiento, fecha_norm]); the
\* sort on several columns is stable, equal keys keep their order
sorts_before(df, i, j) ==
    \/ df[i].movimiento < df[j].movimiento
    \/ /\ df[i].movimiento = df[j].movimiento
       /\ df[i].fecha_norm < df[j].fecha_norm
    \/ /\ df[i].movimiento = df[j].movimiento
       /\ df[i].fecha_norm = df[j].fecha_norm
       /\ i < j

sort_values(df) ==
    [k \in 1..Len(df) |->
        df[CHOOSE i \in DOMAIN df :
              Cardinality({j \in DOMAIN df : sorts_before(df, j, i)}) = k - 1]]

\* (faulty variant) cumcount() without the groupby: the position in the frame
cumcount_ungrouped(df, i) == i - 1

\* groupby(movimiento).cumcount(): the number of earlier rows of the frame
\* with the same movimiento
cumcount(df, i) ==
    Cardinality({j \in 1..(i - 1) : df[j].movimiento = df[i].movimiento})

\* the frame sorted, with the column contador
with_counter(df) ==
    LET sorted == sort_values(df)
    IN  [i \in 1..Len(sorted) |->
            [tx_id_ref  |-> sorted[i].tx_id_ref,
             fecha_norm |-> sorted[i].fecha_norm,
             movimiento |-> sorted[i].movimiento,
             contador   |-> cumcount(sorted, i)]]

\* (faulty variant) the merge on contador alone
merge_on_counter(ledger, statement) ==
    LET hits == {<<i, j>> \in (DOMAIN ledger) \X (DOMAIN statement) :
                    ledger[i].contador = statement[j].contador}
        key_before(h, g) ==
            \/ ledger[h[1]].contador < ledger[g[1]].contador
            \/ /\ ledger[h[1]].contador = ledger[g[1]].contador
               /\ \/ h[1] < g[1]
                  \/ h[1] = g[1] /\ h[2] < g[2]
        nth(k) == CHOOSE h \in hits :
                     Cardinality({g \in hits : key_before(g, h)}) = k - 1
    IN  [k \in 1..Cardinality(hits) |->
            [movimiento     |-> ledger[nth(k)[1]].movimiento,
             fecha_libro    |-> ledger[nth(k)[1]].fecha_norm,
             fecha_extracto |-> statement[nth(k)[2]].fecha_norm,
             tx_id_ref_x    |-> ledger[nth(k)[1]].tx_id_ref,
             tx_id_ref_y    |-> statement[nth(k)[2]].tx_id_ref]]

\* (faulty variant) the merge also asks for the same date on both sides
merge_on_date(ledger, statement) ==
    LET hits == {<<i, j>> \in (DOMAIN ledger) \X (DOMAIN statement) :
                    /\ ledger[i].movimiento = statement[j].movimiento
                    /\ ledger[i].contador = statement[j].contador
                    /\ ledger[i].fecha_norm = statement[j].fecha_norm}
        key_before(h, g) ==
            \/ ledger[h[1]].movimiento < ledger[g[1]].movimiento
            \/ /\ ledger[h[1]].movimiento = ledger[g[1]].movimiento
               /\ ledger[h[1]].contador < ledger[g[1]].contador
        nth(k) == CHOOSE h \in hits :
                     Cardinality({g \in hits : key_before(g, h)}) = k - 1
    IN  [k \in 1..Cardinality(hits) |->
            [movimiento     |-> ledger[nth(k)[1]].movimiento,
             fecha_libro    |-> ledger[nth(k)[1]].fecha_norm,
             fecha_extracto |-> statement[nth(k)[2]].fecha_norm,
             tx_id_ref_x    |-> ledger[nth(k)[1]].tx_id_ref,
             tx_id_ref_y    |-> statement[nth(k)[2]].tx_id_ref]]

\* the rows of pd.merge(ledger, statement, on=[movimiento, contador],
\* how='outer') whose _merge is 'both', in the order of the merge: the keys
\* in lexicographic order.  _x is the ledger row, _y the statement row.
merge_both(ledger, statement) ==
    LET hits == {<<i, j>> \in (DOMAIN ledger) \X (DOMAIN statement) :
                    /\ ledger[i].movimiento = statement[j].movimiento
                    /\ ledger[i].contador = statement[j].contador}
        key_before(h, g) ==
            \/ ledger[h[1]].movimiento < ledger[g[1]].movimiento
            \/ /\ ledger[h[1]].movimiento = ledger[g[1]].movimiento
               /\ ledger[h[1]].contador < ledger[g[1]].contador
        nth(k) == CHOOSE h \in hits :
                     Cardinality({g \in hits : key_before(g, h)}) = k - 1
    IN  [k \in 1..Cardinality(hits) |->
            [movimiento     |-> ledger[nth(k)[1]].movimiento,
             fecha_libro    |-> ledger[nth(k)[1]].fecha_norm,
             fecha_extracto |-> statement[nth(k)[2]].fecha_norm,
             tx_id_ref_x    |-> ledger[nth(k)[1]].tx_id_ref,
             tx_id_ref_y    |-> statement[nth(k)[2]].tx_id_ref]]

\* df_conciliados, the second component of the result of reconcile_data
reconcile_data(df_ledger, df_statement) ==
    IF df_ledger = << >> \/ df_statement = << >> THEN << >>
    ELSE merge_both(with_counter(ledger_with_movement(df_ledger)),
                    with_counter(df_statement))

\* (faulty variant) the loop over df_conciliados leaves at its first commit
commit_rows_first_only(rows, k, current_bank_matched, current_acc_matched, newly) ==
    LET free == {n \in k..Len(rows) :
                    /\ rows[n].tx_id_ref_x \notin current_acc_matched
                    /\ rows[n].tx_id_ref_y \notin current_bank_matched}
        n == CHOOSE m \in free : \A o \in free : m <= o
    IN  IF free = {} THEN newly
        ELSE Append(newly, MatchedPair(rows[n].tx_id_ref_y,
                                       rows[n].tx_id_ref_x))

\* ---- POST /api/transactions/reconcile/auto ----------------------------------
\* the loop over df_conciliados: a row is committed unless one of its ids
\* is already in current_bank_matched / current_acc_matched
RECURSIVE commit_rows(_, _, _, _, _)
commit_rows(rows, k, current_bank_matched, current_acc_matched, newly) ==
    IF k > Len(rows) THEN newly
    ELSE IF /\ rows[k].tx_id_ref_x \notin current_acc_matched
            /\ rows[k].tx_id_ref_y \notin current_bank_matched
    THEN commit_rows(rows, k + 1,
                     current_bank_matched \cup {rows[k].tx_id_ref_y},
                     current_acc_matched \cup {rows[k].tx_id_ref_x},
                     Append(newly, MatchedPair(rows[k].tx_id_ref_y,
                                               rows[k].tx_id_ref_x)))
    ELSE commit_rows(rows, k + 1, current_bank_matched,
                     current_acc_matched, newly)

\* the candidate rows of a pass over the current state
df_conciliados ==
    reconcile_data(accounting_to_dataframe(unmatched_acc_txs),
                   bank_to_dataframe(unmatched_bank_txs))

\* (faulty variant) the pass runs on all the records, paired or not, and
\* commits every candidate row
reconcile_auto_result_all_records ==
    LET rows == reconcile_data(accounting_to_dataframe(accounting_transactions),
                               bank_to_dataframe(bank_transactions))
    IN  IF bank_transactions = << >> \/ accounting_transactions = << >>
        THEN Accept("no_pending", << >>, <<0, 0>>, 0)
        ELSE Accept("auto_done",
                    [k \in 1..Len(rows) |->
                        MatchedPair(rows[k].tx_id_ref_y, rows[k].tx_id_ref_x)],
                    <<0, 0>>, 0)

\* (faulty variant) without the early return: the conversion of an empty list
\* fails and the handler answers 500
reconcile_auto_result_unguarded ==
    IF unmatched_bank_txs = << >> \/ unmatched_acc_txs = << >>
    THEN Reject(500, "internal_error", 0, 0)
    ELSE Accept("auto_done",
                commit_rows(df_conciliados, 1,
                            matched_bank_ids(matched_pairs),
                            matched_acc_ids(matched_pairs), << >>),
                <<0, 0>>, 0)

reconcile_auto_result ==
    IF unmatched_bank_txs = << >> \/ unmatched_acc_txs = << >>
    THEN Accept("no_pending", << >>, <<0, 0>>, 0)
    ELSE Accept("auto_done",
                commit_rows(df_conciliados, 1,
                            matched_bank_ids(matched_pairs),
                            matched_acc_ids(matched_pairs), << >>),
                <<0, 0>>, 0)

\* ---- processing.py: the normalizers ------------------------------------------
\* A cell of a file read with dtype=str is a text, held as the sequence of
\* its characters, or is missing (NaN).
NaN == <<"nan">>

\* the characters of the cells: two digits, the period, the comma, the
\* currency symbol, the sign, the blank, and "x" for a character that is no
\* part of a number
Chars == {"1", "2", ".", ",", "$", "-", " ", "x"}

\* the example of an amount with a period and a comma
ExampleCell == <<"1", ".", "2", "3", "4", ",", "5", "6">>

\* the amount cells: every text of up to MaxCell characters, the example,
\* and the missing cell
Cells == SeqsUpTo(Chars, MaxCell) \cup {ExampleCell, NaN}

Digits == <<"0", "1", "2", "3", "4", "5", "6", "7", "8", "9">>

digit_of(c) == (CHOOSE i \in DOMAIN Digits : Digits[i] = c) - 1

\* str.replace(ch, '')
remove(text, ch) == SelectSeq(text, LAMBDA c : c # ch)

RECURSIVE lstrip(_)
lstrip(text) ==
    IF text # << >> /\ Head(text) = " " THEN lstrip(Tail(text)) ELSE text

RECURSIVE rstrip(_)
rstrip(text) ==
    IF text # << >> /\ text[Len(text)] = " "
    THEN rstrip(SubSeq(text, 1, Len(text) - 1)) ELSE text

\* str.strip()
strip(text) == rstrip(lstrip(text))

\* A float read from a decimal text is held as the decimal itself: the
\* integer m and the number k of decimal places stand for m / 10^k, with no
\* trailing zero among the places.
RECURSIVE Decimal(_, _)
Decimal(m, k) ==
    IF k > 0 /\ m % 10 = 0 THEN Decimal(m \div 10, k - 1)
    ELSE [m |-> m, k |-> k]

Zero == Decimal(0, 0)

\* the outcome of a call: a returned value, or a ValueError
Returned(v) == [raised |-> FALSE, value |-> v]

ValueError == [raised |-> TRUE, value |-> Zero]

\* the integer a text of digits denotes
RECURSIVE number(_)
number(ds) ==
    IF ds = << >> THEN 0
    ELSE 10 * number(SubSeq(ds, 1, Len(ds) - 1)) + digit_of(ds[Len(ds)])

\* float(text): blanks around the text are skipped; then an optional sign,
\* digits, and at most one period among them
float_of(text) ==
    LET t      == strip(text)
        neg    == t # << >> /\ Head(t) = "-"
        body   == IF neg THEN Tail(t) ELSE t
        dots   == {i \in DOMAIN body : body[i] = "."}
        digits == remove(body, ".")
        ok     == /\ digits # << >>
                  /\ \A i \in DOMAIN digits : digits[i] \in Range(Digits)
                  /\ Cardinality(dots) <= 1
        places == IF dots = {} THEN 0 ELSE Len(body) - MinOf(dots)
        m      == number(digits)
    IN  IF ok THEN Returned(Decimal(IF neg THEN 0 - m ELSE m, places))
        ELSE ValueError

\* value.replace('$', '').strip(), then .replace(',', '')
cleaned_value(value) == remove(strip(remove(value, "$")), ",")

\* (faulty variant) the ValueError of float() is not caught
format_currency_uncaught(value) ==
    IF value = NaN THEN Returned(Zero) ELSE float_of(cleaned_value(value))

\* format_currency: 0.0 for a missing cell and for a text float() rejects
format_currency(value) ==
    IF value = NaN THEN Returned(Zero)
    ELSE LET f == float_of(cleaned_value(value))
         IN  IF f.raised THEN Returned(Zero) ELSE f

\* ---- processing.py: the dates ------------------------------------------------
\* Python's None, as a date
NoDate == 0

\* A date cell is missing or empty, or holds: a text pd.to_datetime reads
\* (day first), a text of 8 digits only strptime reads, or any other text.
DateForms == {"nan", "empty", "text", "digits8", "junk"}

DateCells ==
    {c \in [form : DateForms, day : Dates] :
        c.form \in {"nan", "empty", "junk"} => c.day = 1}

\* format_date_robust: the date, or None
format_date_robust(date_value) ==
    IF date_value.form \in {"nan", "empty"} THEN NoDate
    ELSE IF date_value.form = "text" THEN date_value.day
    ELSE IF date_value.form = "digits8" THEN date_value.day
    ELSE NoDate

\* ---- processing.py: the rows of a file -----------------------------------------
\* the amount cells of the rows of a file: a missing cell, a text that is no
\* number, and an amount
FileCells == {NaN, <<"x">>, <<"$", "2", ".", "1">>}

\* the description cells of a statement
DescriptionCells == {"Pago", "saldo dia "}

EXTRACTO_VALORES_A_EXCLUIR_DESC == {"SALDO DIA", "SALDO FINAL", "SALDO INICIAL"}

\* .str.strip().str.upper() of a description cell
strip_upper(text) == IF text = "saldo dia " THEN "SALDO DIA" ELSE "PAGO"

\* the data rows of a statement: fecha_raw, movimiento_raw, descripcion_raw
StatementRows ==
    [fecha_raw : DateCells, movimiento_raw : FileCells,
     descripcion_raw : DescriptionCells]

\* the data rows of an auxiliary book, below its header: Fecha, debito,
\* credito
AuxiliaryRows == [Fecha : DateCells, debito : FileCells, credito : FileCells]

\* a float of at most 2 decimal places, as an amount
float_amount(d) == (d.m * 100 * cent) \div (10 ^ d.k)

\* the result of a transform: None, or a frame
NoFrame == [none |-> TRUE, rows |-> << >>]

Frame(rows) == [none |-> FALSE, rows |-> rows]

\* (faulty variant) the rows without a date stay in the frame
transform_bancolombia_statement_undated(df) ==
    LET amounts == [i \in DOMAIN df |-> format_currency(df[i].movimiento_raw)]
        valued  == [i \in DOMAIN df |->
                       [fecha_norm |-> format_date_robust(df[i].fecha_raw),
                        movimiento |-> float_amount(amounts[i].value),
                        descripcion_raw |-> df[i].descripcion_raw]]
        kept    == SelectSeq(valued,
                       LAMBDA r : strip_upper(r.descripcion_raw)
                                     \notin EXTRACTO_VALORES_A_EXCLUIR_DESC)
    IN  IF df = << >> \/ kept = << >> THEN NoFrame
        ELSE Frame([i \in DOMAIN kept |->
                       [fecha_norm |-> kept[i].fecha_norm,
                        movimiento |-> kept[i].movimiento]])

\* transform_bancolombia_statement, from the named columns on: the dates,
\* the rows without a date dropped, the movements, the rows with an
\* excluded description dropped.  A ValueError makes the result None.
transform_bancolombia_statement(df) ==
    LET with_dates == [i \in DOMAIN df |->
                          [fecha_norm |-> format_date_robust(df[i].fecha_raw),
                           movimiento_raw |-> df[i].movimiento_raw,
                           descripcion_raw |-> df[i].descripcion_raw]]
        dated   == SelectSeq(with_dates, LAMBDA r : r.fecha_norm # NoDate)
        amounts == [i \in DOMAIN dated |->
                       format_currency(dated[i].movimiento_raw)]
        valued  == [i \in DOMAIN dated |->
                       [fecha_norm |-> dated[i].fecha_norm,
                        movimiento |-> float_amount(amounts[i].value),
                        descripcion_raw |-> dated[i].descripcion_raw]]
        kept    == SelectSeq(valued,
                       LAMBDA r : strip_upper(r.descripcion_raw)
                                     \notin EXTRACTO_VALORES_A_EXCLUIR_DESC)
    IN  IF dated = << >> THEN NoFrame
        ELSE IF \E i \in DOMAIN amounts : amounts[i].raised THEN NoFrame
        ELSE IF kept = << >> THEN NoFrame
        ELSE Frame([i \in DOMAIN kept |->
                       [fecha_norm |-> kept[i].fecha_norm,
                        movimiento |-> kept[i].movimiento]])

\* transform_siesa_auxiliary, from the data rows below the header on: the
\* dates, the rows without a date dropped, the debits and the credits.
transform_siesa_auxiliary(df_data) ==
    LET with_dates == [i \in DOMAIN df_data |->
                          [fecha_norm |-> format_date_robust(df_data[i].Fecha),
                           debito |-> df_data[i].debito,
                           credito |-> df_data[i].credito]]
        df_process == SelectSeq(with_dates, LAMBDA r : r.fecha_norm # NoDate)
        debitos    == [i \in DOMAIN df_process |->
                          format_currency(df_process[i].debito)]
        creditos   == [i \in DOMAIN df_process |->
                          format_currency(df_process[i].credito)]
    IN  IF df_process = << >> THEN NoFrame
        ELSE IF \E i \in DOMAIN df_process :
                    debitos[i].raised \/ creditos[i].raised THEN NoFrame
        ELSE Frame([i \in DOMAIN df_process |->
                       [fecha_norm |-> df_process[i].fecha_norm,
                        debito  |-> float_amount(debitos[i].value),
                        credito |-> float_amount(creditos[i].value)]])

\* ---- processing.py: the header of the auxiliary book ---------------------------
\* max_rows_to_scan = 50
max_rows_to_scan == 50

\* The texts of the label cells, character by character; "e'" and "E'" stand
\* for the accented letters.
AUXILIAR_FECHA == <<"F", "e", "c", "h", "a">>

AUXILIAR_DOCUMENTO == <<"D", "o", "c", "u", "m", "e", "n", "t", "o">>

AUXILIAR_DEBITO == <<"d", "e", "b", "i", "t", "o">>

AUXILIAR_CREDITO == <<"c", "r", "e", "d", "i", "t", "o">>

debitos_clean == <<"d", "e", "b", "i", "t", "o", "s">>

creditos_clean == <<"c", "r", "e", "d", "i", "t", "o", "s">>

\* labels as a sheet may hold them
LabelFechaUpper == <<" ", "F", "E", "C", "H", "A", " ">>

LabelDebitos == <<"D", "e'", "b", "i", "t", "o", "s">>

LabelCreditos == <<"C", "R", "E'", "D", "I", "T", "O", "S">>

LabelSaldo == <<"S", "a", "l", "d", "o">>

\* unidecode, on the letters of the labels
unidecode(c) == IF c = "e'" THEN "e" ELSE IF c = "E'" THEN "E" ELSE c

UpperCase == <<"A", "C", "D", "E", "F", "H", "I", "O", "R", "S", "T">>

LowerCase == <<"a", "c", "d", "e", "f", "h", "i", "o", "r", "s", "t">>

\* str.lower(), on one character
lower(c) ==
    IF c \in Range(UpperCase)
    THEN LowerCase[CHOOSE i \in DOMAIN UpperCase : UpperCase[i] = c]
    ELSE c

\* clean_text: unidecode, lower, strip
clean_text(text) == strip([i \in DOMAIN text |-> lower(unidecode(text[i]))])

\* A row of the sheet.  cells are the texts of its cells, as the header
\* detection reads them; Fecha, debito and credito are what the cells of
\* those three columns hold as data, as format_date_robust and
\* format_currency read them.
SheetRow(cells, fecha, debito, credito) ==
    [cells |-> cells, Fecha |-> fecha, debito |-> debito, credito |-> credito]

\* a row of labels: no label is a date or a number
LabelRow(cells) ==
    SheetRow(cells, [form |-> "junk", day |-> 1], <<"x">>, <<"x">>)

\* a row of missing and blank cells
BlankRow ==
    SheetRow(<<NaN, <<" ">>, NaN, NaN>>, [form |-> "nan", day |-> 1], NaN, NaN)

\* a row of data: a date cell, a document, a debit, no credit
DataRow(fecha) ==
    SheetRow(<< <<"1">>, <<"x">>, <<"$", "2", ".", "1">>, NaN >>, fecha,
             <<"$", "2", ".", "1">>, NaN)

HeaderRow ==
    LabelRow(<<AUXILIAR_FECHA, AUXILIAR_DOCUMENTO, LabelDebitos, LabelCreditos>>)

\* the labels in another order and another spelling
HeaderRowPlain ==
    LabelRow(<<AUXILIAR_CREDITO, LabelFechaUpper, AUXILIAR_DEBITO,
               AUXILIAR_DOCUMENTO>>)

\* a row of labels without the document
PartialRow ==
    LabelRow(<<AUXILIAR_FECHA, LabelSaldo, LabelDebitos, LabelCreditos>>)

\* a dated line above the header, such as an opening balance
LeadRow == DataRow([form |-> "text", day |-> 1])

\* re.match(r'^\s*$', cell), or a missing cell
is_blank(cell) == cell = NaN \/ strip(cell) = << >>

\* dropna(how='all'), the blank cells replaced by NA, dropna(how='all')
dropna_all(rows) ==
    SelectSeq(rows, LAMBDA row : \E j \in DOMAIN row.cells :
                                    ~ is_blank(row.cells[j]))

\* row_values_clean = {clean_text(v) for v in row.values if pd.notna(v)}
row_values_clean(row) ==
    {clean_text(row.cells[j]) :
        j \in {n \in DOMAIN row.cells : ~ is_blank(row.cells[n])}}

\* has_fecha and has_doc and has_debito_variant and has_credito_variant
has_all_keys(row) ==
    /\ clean_text(AUXILIAR_FECHA) \in row_values_clean(row)
    /\ clean_text(AUXILIAR_DOCUMENTO) \in row_values_clean(row)
    /\ \/ clean_text(AUXILIAR_DEBITO) \in row_values_clean(row)
       \/ debitos_clean \in row_values_clean(row)
    /\ \/ clean_text(AUXILIAR_CREDITO) \in row_values_clean(row)
       \/ creditos_clean \in row_values_clean(row)

\* (faulty variant) the loop does not break: the last row of labels wins
scan_header_last(df_auxiliar, i) ==
    LET hits == {n \in 1..MinOf({Len(df_auxiliar), max_rows_to_scan}) :
                    has_all_keys(df_auxiliar[n])}
    IN  IF hits = {} THEN 0 - 1
        ELSE (CHOOSE n \in hits : \A m \in hits : m <= n) - 1

\* for i, row in df_auxiliar.head(max_rows_to_scan).iterrows(): the index
\* (from 0) of the first row with all the keys, or -1; i is the row the
\* loop is at (from 1)
RECURSIVE scan_header(_, _)
scan_header(df_auxiliar, i) ==
    IF i > Len(df_auxiliar) \/ i > max_rows_to_scan THEN 0 - 1
    ELSE IF has_all_keys(df_auxiliar[i]) THEN i - 1
    ELSE scan_header(df_auxiliar, i + 1)

\* transform_siesa_auxiliary, from the sheet on.  The rows below the header
\* that have no essential cell have no date, and go with the rows without
\* a date.  The ValueError of a header that is not found makes the result
\* None.
transform_siesa_sheet(df_excel) ==
    LET df_auxiliar      == dropna_all(df_excel)
        header_row_index == scan_header(df_auxiliar, 1)
        df_data          == SubSeq(df_auxiliar, header_row_index + 2,
                                   Len(df_auxiliar))
    IN  IF header_row_index = 0 - 1 THEN NoFrame
        ELSE IF df_data = << >> THEN NoFrame
        ELSE transform_siesa_auxiliary(df_data)

\* process_uploaded_file: the transform of the format
process_uploaded_file(content, format_id) ==
    IF FILE_FORMAT_CONFIGS[format_id].type = "bank"
    THEN transform_bancolombia_statement(content)
    ELSE transform_siesa_auxiliary(content)

\* the raw inputs of the ingestion: an amount cell, or the rows of a file
\* with its format
CellInput(c) ==
    [kind |-> "cell", cell |-> c, format_id |-> "none", rows |-> << >>]

FileInput(f, rows) ==
    [kind |-> "file", cell |-> NaN, format_id |-> f, rows |-> rows]

NoInput == [kind |-> "none", cell |-> NaN, format_id |-> "none", rows |-> << >>]

SheetInput(rows) ==
    [kind |-> "sheet", cell |-> NaN, format_id |-> "siesa_xlsx", rows |-> rows]

StatementFiles == SeqsUpTo(StatementRows, MaxRows) \ {<< >>}

AuxiliaryFiles == SeqsUpTo(AuxiliaryRows, MaxRows) \ {<< >>}

\* the sheets of an auxiliary book: leading rows, up to the end of the
\* scanned rows and beyond; then blank rows, rows of labels and dated rows
\* in any order; then rows of data
LeadCounts ==
    {0, max_rows_to_scan - 2, max_rows_to_scan - 1, max_rows_to_scan}

MiddleRows == {BlankRow, HeaderRow, HeaderRowPlain, PartialRow, LeadRow}

SheetDataRows ==
    {DataRow([form |-> "text", day |-> 1]),
     DataRow([form |-> "digits8", day |-> MaxDate]),
     DataRow([form |-> "junk", day |-> 1])}

Sheets ==
    {[i \in 1..n |-> LeadRow] \o middle \o data :
        n \in LeadCounts, middle \in SeqsUpTo(MiddleRows, MaxMiddle),
        data \in SeqsUpTo(SheetDataRows, MaxRows)}

RawInputs ==
    {CellInput(c) : c \in Cells}
        \cup {FileInput("bancolombia_csv_9col", f) : f \in StatementFiles}
        \cup {FileInput("siesa_xlsx", f) : f \in AuxiliaryFiles}
        \cup {SheetInput(rows) : rows \in Sheets}

\* nothing normalized yet
Pending ==
    [done |-> FALSE, raised |-> FALSE, value |-> Zero,
     none |-> FALSE, frame |-> << >>]

\* ---- the state machine ------------------------------------------------------
\* ids a request may name: every id ever handed out or still to come
RequestIds == 1..MaxIds

IdLists == SeqsUpTo(RequestIds, MaxList)

\* no response is on its way to a client
NoResponse == ResponseOf("none", Reject(0, "none", 0, 0))

\* the server is between two requests: the response of the last request has
\* been sent.  A handler reads nothing of the response of another request,
\* so nothing is lost by serving a request only then.
Idle == response.op = "none"

Init ==
    /\ bank_transactions = << >>
    /\ accounting_transactions = << >>
    /\ matched_pairs = << >>
    /\ next_id = 1
    /\ response = ResponseOf("none", Reject(0, "none", 0, 0))
    /\ raw_input = NoInput
    /\ normalized = Pending
    /\ suspended = << >>

\* a handler that answers without touching db
Answer(op, res) ==
    /\ response' = ResponseOf(op, res)
    /\ UNCHANGED <<bank_transactions, accounting_transactions,
                   matched_pairs, next_id>>

\* (faulty variant) the new pairs are put in front of the list
Commit_in_front(op, res) ==
    /\ matched_pairs' = res.new_pairs \o matched_pairs
    /\ response' = ResponseOf(op, res)
    /\ UNCHANGED <<bank_transactions, accounting_transactions, next_id>>

\* a reconcile handler: db["matched_pairs"].append for every new pair
Commit(op, res) ==
    /\ matched_pairs' = matched_pairs \o res.new_pairs
    /\ response' = ResponseOf(op, res)
    /\ UNCHANGED <<bank_transactions, accounting_transactions, next_id>>

\* (faulty variant) the side's list is replaced and the pairs are kept
store_upload_keep_pairs(tx_type, new_transactions) ==
    /\ IF tx_type = "bank"
       THEN /\ bank_transactions' = new_transactions
            /\ UNCHANGED accounting_transactions
       ELSE /\ accounting_transactions' = new_transactions
            /\ UNCHANGED bank_transactions
    /\ UNCHANGED matched_pairs
    /\ next_id' = next_id + Len(new_transactions)
    /\ response' = [ResponseOf("upload", Accept(tx_type, << >>, <<0, 0>>, 0))
                       EXCEPT !.created = Len(new_transactions),
                              !.discarded = 0]

\* (faulty variant) the new transactions are added to the side's list
store_upload_extend(tx_type, new_transactions) ==
    /\ IF tx_type = "bank"
       THEN /\ bank_transactions' = bank_transactions \o new_transactions
            /\ UNCHANGED accounting_transactions
       ELSE /\ accounting_transactions'
                  = accounting_transactions \o new_transactions
            /\ UNCHANGED bank_transactions
    /\ matched_pairs' = << >>
    /\ next_id' = next_id + Len(new_transactions)
    /\ response' = [ResponseOf("upload", Accept(tx_type, << >>, <<0, 0>>, 0))
                       EXCEPT !.created = Len(new_transactions),
                              !.discarded = Len(matched_pairs)]

\* (faulty variant) the list of the other side is emptied as well
store_upload_reset_other(tx_type, new_transactions) ==
    /\ IF tx_type = "bank"
       THEN /\ bank_transactions' = new_transactions
            /\ accounting_transactions' = << >>
       ELSE /\ accounting_transactions' = new_transactions
            /\ bank_transactions' = << >>
    /\ matched_pairs' = << >>
    /\ next_id' = next_id + Len(new_transactions)
    /\ response' = [ResponseOf("upload", Accept(tx_type, << >>, <<0, 0>>, 0))
                       EXCEPT !.created = Len(new_transactions),
                              !.discarded = Len(matched_pairs)]

\* a group handler: the same, for a request with the id list tx_ids
CommitGroup(op, res, tx_ids) ==
    /\ matched_pairs' = matched_pairs \o res.new_pairs
    /\ response' = [ResponseOf(op, res) EXCEPT !.requested = Len(tx_ids)]
    /\ UNCHANGED <<bank_transactions, accounting_transactions, next_id>>

\* db[f"{tx_type}_transactions"] = new_transactions; db["matched_pairs"] = []
store_upload(tx_type, new_transactions) ==
    /\ IF tx_type = "bank"
       THEN /\ bank_transactions' = new_transactions
            /\ UNCHANGED accounting_transactions
       ELSE /\ accounting_transactions' = new_transactions
            /\ UNCHANGED bank_transactions
    /\ matched_pairs' = << >>
    /\ next_id' = next_id + Len(new_transactions)
    /\ response' = [ResponseOf("upload", Accept(tx_type, << >>, <<0, 0>>, 0))
                       EXCEPT !.created = Len(new_transactions),
                              !.discarded = Len(matched_pairs)]

\* POST /api/transactions/upload with a format id that is not registered
upload_unknown_format ==
    /\ Idle
    /\ \E format_id \in FormatIds \ DOMAIN FILE_FORMAT_CONFIGS :
           /\ Answer("upload", Reject(400, "unknown_format", 0, 0))
           /\ UNCHANGED <<ingest, suspended>>

\* ... process_uploaded_file returned None
upload_failed ==
    /\ Idle
    /\ \E format_id \in DOMAIN FILE_FORMAT_CONFIGS :
           /\ Answer("upload", Reject(400, "processing_failed", 0, 0))
           /\ UNCHANGED <<ingest, suspended>>

\* ... process_uploaded_file returned a frame (possibly empty)
upload_bank ==
    /\ Idle
    /\ \E format_id \in DOMAIN FILE_FORMAT_CONFIGS :
       \E df_processed \in BankFrames \cup {<< >>} :
           /\ FILE_FORMAT_CONFIGS[format_id].type = "bank"
           /\ next_id + Len(df_processed) - 1 <= MaxIds
           /\ store_upload("bank",
                  dataframe_to_transactions(df_processed, "bank", next_id))
           /\ UNCHANGED <<ingest, suspended>>

upload_accounting ==
    /\ Idle
    /\ \E format_id \in DOMAIN FILE_FORMAT_CONFIGS :
       \E df_processed \in AccountingFrames \cup {<< >>} :
           /\ FILE_FORMAT_CONFIGS[format_id].type = "accounting"
           /\ next_id + Len(df_processed) - 1 <= MaxIds
           /\ store_upload("accounting",
                  dataframe_to_transactions(df_processed, "accounting", next_id))
           /\ UNCHANGED <<ingest, suspended>>

upload_and_process_file ==
    \/ upload_unknown_format
    \/ upload_failed
    \/ upload_bank
    \/ upload_accounting

\* GET /api/transactions/initial
get_initial_transactions ==
    /\ Idle
    /\ Answer("initial", Accept("unmatched", << >>, <<0, 0>>, 0))
    /\ UNCHANGED <<ingest, suspended>>

reconcile_manual ==
    /\ Idle
    /\ \E bank_tx_id \in RequestIds, acc_tx_id \in RequestIds :
           /\ Commit("manual", reconcile_manual_result(bank_tx_id, acc_tx_id))
           /\ UNCHANGED <<ingest, suspended>>

\* (faulty variant) the group handler is suspended at an await between its
\* validation and its commit: the pairs it validated are appended when it
\* is resumed
reconcile_manual_many_to_one_awaiting ==
    /\ Idle
    /\ \/ \E bank_tx_id \in RequestIds, acc_tx_ids \in IdLists :
             LET res == reconcile_manual_many_to_one_result(bank_tx_id,
                                                            acc_tx_ids)
             IN  IF res.status = 200
                 THEN /\ Len(suspended) < MaxSuspended
                      /\ suspended' =
                            Append(suspended,
                                   [handler |-> "many_to_one",
                                    format_id |-> "none", result |-> res,
                                    seen |-> Len(matched_pairs)])
                      /\ UNCHANGED <<bank_transactions, accounting_transactions,
                                     matched_pairs, next_id, response, ingest>>
                 ELSE /\ CommitGroup("many_to_one", res, acc_tx_ids)
                      /\ UNCHANGED <<ingest, suspended>>
       \/ \E k \in DOMAIN suspended :
             /\ suspended[k].handler = "many_to_one"
             /\ suspended' = without(suspended, k)
             /\ CommitGroup("many_to_one", suspended[k].result,
                            suspended[k].result.new_pairs)
             /\ UNCHANGED ingest

reconcile_manual_many_to_one ==
    /\ Idle
    /\ \E bank_tx_id \in RequestIds, acc_tx_ids \in IdLists :
           /\ CommitGroup("many_to_one",
                          reconcile_manual_many_to_one_result(bank_tx_id,
                                                              acc_tx_ids),
                          acc_tx_ids)
           /\ UNCHANGED <<ingest, suspended>>

reconcile_manual_one_to_many ==
    /\ Idle
    /\ \E acc_tx_id \in RequestIds, bank_tx_ids \in IdLists :
           /\ CommitGroup("one_to_many",
                          reconcile_manual_one_to_many_result(acc_tx_id,
                                                              bank_tx_ids),
                          bank_tx_ids)
           /\ UNCHANGED <<ingest, suspended>>

reconcile_auto ==
    /\ Idle
    /\ matched_pairs' = matched_pairs \o reconcile_auto_result.new_pairs
    /\ response' = [ResponseOf("auto", reconcile_auto_result)
                       EXCEPT !.after_auto = response.after_auto]
    /\ UNCHANGED <<bank_transactions, accounting_transactions, next_id>>
    /\ UNCHANGED <<ingest, suspended>>

\* POST /api/admin/clear_data
clear_all_data ==
    /\ Idle
    /\ \E confirm \in BOOLEAN :
           /\ IF ~ confirm
              THEN Answer("clear", Reject(400, "confirm_required", 0, 0))
              ELSE /\ bank_transactions' = << >>
                   /\ accounting_transactions' = << >>
                   /\ matched_pairs' = << >>
                   /\ response' = ResponseOf("clear",
                                              Accept("cleared", << >>, <<0, 0>>, 0))
                   /\ UNCHANGED next_id
           /\ UNCHANGED <<ingest, suspended>>

\* the response of the handler is sent to the client; what is kept of it is
\* whether the request was an automatic pass
send_response ==
    /\ ~ Idle
    /\ response' = [NoResponse EXCEPT !.after_auto = (response.op = "auto")]
    /\ UNCHANGED <<bank_transactions, accounting_transactions,
                   matched_pairs, next_id, ingest, suspended>>

Next ==
    \/ send_response
    \/ upload_and_process_file
    \/ get_initial_transactions
    \/ reconcile_manual
    \/ reconcile_manual_many_to_one
    \/ reconcile_manual_one_to_many
    \/ reconcile_auto
    \/ clear_all_data

Spec == Init /\ [][Next]_vars

\* ---- the ingestion of one raw input -------------------------------------------
\* format_currency applied to an amount cell
format_currency_cell ==
    /\ raw_input.kind = "cell"
    /\ ~ normalized.done
    /\ LET r == format_currency(raw_input.cell)
       IN  normalized' = [Pending EXCEPT !.done = TRUE, !.raised = r.raised,
                                         !.value = r.value]
    /\ UNCHANGED <<bank_transactions, accounting_transactions,
                   matched_pairs, next_id, response, raw_input, suspended>>

\* POST /api/transactions/upload with the rows of a file of a registered
\* format
upload_raw_file ==
    /\ raw_input.kind = "file"
    /\ ~ normalized.done
    /\ LET format_id    == raw_input.format_id
           tx_type      == FILE_FORMAT_CONFIGS[format_id].type
           df_processed == process_uploaded_file(raw_input.rows, format_id)
       IN  /\ normalized' = [Pending EXCEPT !.done = TRUE,
                                            !.none = df_processed.none,
                                            !.frame = df_processed.rows]
           /\ IF df_processed.none
              THEN Answer("upload", Reject(400, "processing_failed", 0, 0))
              ELSE store_upload(tx_type,
                       dataframe_to_transactions(df_processed.rows, tx_type,
                                                 next_id))
    /\ UNCHANGED <<raw_input, suspended>>

\* POST /api/transactions/upload with the sheet of an auxiliary book
upload_raw_sheet ==
    /\ raw_input.kind = "sheet"
    /\ ~ normalized.done
    /\ LET format_id    == raw_input.format_id
           tx_type      == FILE_FORMAT_CONFIGS[format_id].type
           df_processed == transform_siesa_sheet(raw_input.rows)
       IN  /\ normalized' = [Pending EXCEPT !.done = TRUE,
                                            !.none = df_processed.none,
                                            !.frame = df_processed.rows]
           /\ IF df_processed.none
              THEN Answer("upload", Reject(400, "processing_failed", 0, 0))
              ELSE store_upload(tx_type,
                       dataframe_to_transactions(df_processed.rows, tx_type,
                                                 next_id))
    /\ UNCHANGED <<raw_input, suspended>>

InitIngest ==
    /\ bank_transactions = << >>
    /\ accounting_transactions = << >>
    /\ matched_pairs = << >>
    /\ next_id = 1
    /\ response = ResponseOf("none", Reject(0, "none", 0, 0))
    /\ raw_input \in RawInputs
    /\ normalized = Pending
    /\ suspended = << >>

NextIngest ==
    \/ format_currency_cell
    \/ upload_raw_file
    \/ upload_raw_sheet

SpecIngest == InitIngest /\ [][NextIngest]_vars

\* ---- the requests on the event loop -----------------------------------------
\* Every handler is a coroutine of one event loop: it runs alone from one
\* await to the next.  The reconcile handlers and clear_all_data hold no
\* await, so each of them is one step.  upload_and_process_file is
\* suspended at `content = await file.read()`, after the checks of the
\* format id and before it processes the content and writes db; its second
\* await, file.close(), comes after the writes.

\* a coroutine of upload_and_process_file suspended at file.read(); seen is
\* history: the number of pairs of the state it was suspended in
Reading(format_id) ==
    [handler |-> "upload", format_id |-> format_id,
     result |-> Reject(0, "none", 0, 0), seen |-> Len(matched_pairs)]

\* the handler up to its first await, for an unknown format id: HTTP 400
upload_unknown_format_begin ==
    /\ Idle
    /\ \E format_id \in FormatIds \ DOMAIN FILE_FORMAT_CONFIGS :
           /\ Answer("upload", Reject(400, "unknown_format", 0, 0))
           /\ UNCHANGED <<ingest, suspended>>

\* (faulty variant) the format id is not checked before the file is read
upload_begin_unchecked ==
    /\ Idle
    /\ \E format_id \in FormatIds :
           /\ Len(suspended) < MaxSuspended
           /\ suspended' = Append(suspended, Reading(format_id))
           /\ UNCHANGED <<bank_transactions, accounting_transactions,
                          matched_pairs, next_id, response, ingest>>

\* the handler up to its first await, for a registered format id
upload_begin ==
    /\ Idle
    /\ \E format_id \in DOMAIN FILE_FORMAT_CONFIGS :
           /\ FILE_FORMAT_CONFIGS[format_id].type \in {"bank", "accounting"}
           /\ Len(suspended) < MaxSuspended
           /\ suspended' = Append(suspended, Reading(format_id))
           /\ UNCHANGED <<bank_transactions, accounting_transactions,
                          matched_pairs, next_id, response, ingest>>

\* file.read() raised: except Exception, HTTP 500
upload_read_failed ==
    /\ Idle
    /\ \E k \in DOMAIN suspended :
           /\ suspended[k].handler = "upload"
           /\ suspended' = without(suspended, k)
           /\ Answer("upload", Reject(500, "read_failed", 0, 0))
           /\ UNCHANGED ingest

\* (faulty variant) the pairs are reset before the content is processed
upload_processing_failed_after_reset ==
    /\ Idle
    /\ \E k \in DOMAIN suspended :
           /\ suspended[k].handler = "upload"
           /\ suspended' = without(suspended, k)
           /\ matched_pairs' = << >>
           /\ response' = ResponseOf("upload",
                                      Reject(400, "processing_failed", 0, 0))
           /\ UNCHANGED <<bank_transactions, accounting_transactions, next_id,
                          ingest>>

\* process_uploaded_file returned None: HTTP 400
upload_processing_failed ==
    /\ Idle
    /\ \E k \in DOMAIN suspended :
           /\ suspended[k].handler = "upload"
           /\ suspended' = without(suspended, k)
           /\ Answer("upload", Reject(400, "processing_failed", 0, 0))
           /\ UNCHANGED ingest

\* dataframe_to_transactions raised ValueError, a standard column being
\* missing from the processed frame: HTTP 500
upload_missing_columns ==
    /\ Idle
    /\ \E k \in DOMAIN suspended :
           /\ suspended[k].handler = "upload"
           /\ suspended' = without(suspended, k)
           /\ Answer("upload", Reject(500, "missing_columns", 0, 0))
           /\ UNCHANGED ingest

\* the content was read and processed: the records are stored
upload_store ==
    /\ Idle
    /\ \E k \in DOMAIN suspended :
           /\ suspended[k].handler = "upload"
           /\ LET tx_type == FILE_FORMAT_CONFIGS[suspended[k].format_id].type
              IN  \E df_processed \in (IF tx_type = "bank" THEN BankFrames
                                       ELSE AccountingFrames) \cup {<< >>} :
                     /\ next_id + Len(df_processed) - 1 <= MaxLoopIds
                     /\ suspended' = without(suspended, k)
                     /\ store_upload(tx_type,
                            dataframe_to_transactions(df_processed, tx_type,
                                                      next_id))
                     /\ UNCHANGED ingest

\* the handler from file.read() on
upload_resume ==
    \/ upload_read_failed
    \/ upload_processing_failed
    \/ upload_missing_columns
    \/ upload_store

NextLoop ==
    \/ send_response
    \/ upload_unknown_format_begin
    \/ upload_begin
    \/ upload_resume
    \/ reconcile_manual
    \/ reconcile_manual_many_to_one
    \/ reconcile_manual_one_to_many
    \/ reconcile_auto
    \/ clear_all_data

SpecLoop == Init /\ [][NextLoop]_vars

\* ---- the ids of the records ---------------------------------------------------
\* tx_id = f"{tx_type[0]}-{uuid.uuid4().hex[:8]}": the first letter of the
\* side and the first 8 of the 32 hex digits of a random uuid.  A uuid is
\* a number of 0..MaxUuid - 1 here; its digits after the 8th take HexTail
\* values, so that uuid \div HexTail is what hex[:8] keeps.  The ids are
\* numbered: those of the accounting side ("a-") first, then those of the
\* bank side ("b-").
hex8(uuid) == uuid \div HexTail

HexSpace == hex8(MaxUuid - 1) + 1

tx_id_of(tx_type, uuid) ==
    (IF tx_type = "bank" THEN HexSpace ELSE 0) + hex8(uuid) + 1

\* the uuids drawn for the rows of a frame: uuid4 gives no value twice
Uuids(n) ==
    {us \in [1..n -> 0..(MaxUuid - 1)] :
        \A i \in 1..n, j \in 1..n : i # j => us[i] # us[j]}

\* one Transaction per row, in row order, with the id made of its uuid
dataframe_to_transactions_uuid(df, tx_type, uuids) ==
    [i \in 1..Len(df) |->
        Transaction(tx_id_of(tx_type, uuids[i]), df[i].fecha_norm,
                    row_amount(df[i], tx_type), tx_type)]

\* a successful upload, the uuids of its records drawn at random
upload_bank_uuid ==
    /\ Idle
    /\ \E df_processed \in BankFrames \cup {<< >>} :
       \E uuids \in Uuids(Len(df_processed)) :
           /\ next_id + Len(df_processed) - 1 <= MaxIds
           /\ store_upload("bank",
                  dataframe_to_transactions_uuid(df_processed, "bank", uuids))
           /\ UNCHANGED <<ingest, suspended>>

upload_accounting_uuid ==
    /\ Idle
    /\ \E df_processed \in AccountingFrames \cup {<< >>} :
       \E uuids \in Uuids(Len(df_processed)) :
           /\ next_id + Len(df_processed) - 1 <= MaxIds
           /\ store_upload("accounting",
                  dataframe_to_transactions_uuid(df_processed, "accounting",
                                                 uuids))
           /\ UNCHANGED <<ingest, suspended>>

NextIds ==
    \/ send_response
    \/ upload_bank_uuid
    \/ upload_accounting_uuid
    \/ get_initial_transactions
    \/ reconcile_manual

SpecIds == Init /\ [][NextIds]_vars

TypeOK ==
    /\ next_id \in 1..(MaxIds + 1)
    /\ Len(matched_pairs) <= MaxIds * MaxIds

\* ==========================================================================
\* Properties
\* ==========================================================================
ManualOps == {"manual", "many_to_one", "one_to_many"}

Db == <<bank_transactions, accounting_transactions, matched_pairs, next_id>>

IdsOf(txs) == {txs[i].id : i \in DOMAIN txs}

\* the request names an id that is already in a pair
NamesMatchedId(bank_ids, acc_ids) ==
    \/ \E b \in bank_ids : bank_is_matched(b, matched_pairs)
    \/ \E a \in acc_ids : accounting_is_matched(a, matched_pairs)

\* every id the request names is a known record of its side
NamesKnownIds(bank_ids, acc_ids) ==
    /\ bank_ids \subseteq IdsOf(bank_transactions)
    /\ acc_ids \subseteq IdsOf(accounting_transactions)

NonEmptyIdLists == IdLists \ {<< >>}

\* C1 as claimed: in every reachable state, a manual request (1:1,
\* one-bank-to-many-accounting, many-bank-to-one-accounting) that names an
\* id already in a pair is answered with the already-reconciled error.
C1_AlreadyReconciledAlways ==
    /\ \A b \in RequestIds, a \in RequestIds :
          NamesMatchedId({b}, {a}) =>
             reconcile_manual_result(b, a).detail = "already_reconciled"
    /\ \A b \in RequestIds, ids \in IdLists :
          NamesMatchedId({b}, Range(ids)) =>
             reconcile_manual_many_to_one_result(b, ids).detail
                = "already_reconciled"
    /\ \A a \in RequestIds, ids \in IdLists :
          NamesMatchedId(Range(ids), {a}) =>
             reconcile_manual_one_to_many_result(a, ids).detail
                = "already_reconciled"

\* what C1 promises of one result: with_error says whether the error is
\* the already-reconciled one
RejectedAsReconciled(res, with_error) ==
    /\ res.status # 200
    /\ res.new_pairs = << >>
    /\ with_error => (res.status = 400 /\ res.detail = "already_reconciled")

\* C1 amended: in every reachable state, a manual request that names an id
\* already in a pair is rejected and commits nothing; the error is the
\* already-reconciled one for every 1:1 request, and for a group request
\* whenever its list is not empty and every id it names is a known record
\* of its side (otherwise the empty-list or the not-found error may come
\* first).
C1_RejectedWhenReconciled ==
    /\ \A b \in RequestIds, a \in RequestIds :
          NamesMatchedId({b}, {a}) =>
             RejectedAsReconciled(reconcile_manual_result(b, a), TRUE)
    /\ \A b \in RequestIds, ids \in IdLists :
          NamesMatchedId({b}, Range(ids)) =>
             RejectedAsReconciled(
                reconcile_manual_many_to_one_result(b, ids),
                ids # << >> /\ NamesKnownIds({b}, Range(ids)))
    /\ \A a \in RequestIds, ids \in IdLists :
          NamesMatchedId(Range(ids), {a}) =>
             RejectedAsReconciled(
                reconcile_manual_one_to_many_result(a, ids),
                ids # << >> /\ NamesKnownIds(Range(ids), {a}))

\* a group request was just rejected as already reconciled because of the
\* second id of its list, the first one having passed
C1_Witness ==
    /\ response.op = "one_to_many"
    /\ response.status = 400
    /\ response.detail = "already_reconciled"
    /\ response.validated = 1
    /\ matched_pairs # << >>

\* C2: a manual request that fails validation leaves the reconciliation
\* state as it was: no pair is appended, not even for the ids that passed
\* before the failing one.
C2_NoPartialCommit ==
    [][(response'.op \in ManualOps /\ response'.status # 200)
          => UNCHANGED Db]_vars

\* a group request failed on an id of its list after another id had passed
C2_Witness ==
    /\ response.op = "many_to_one"
    /\ response.status \in {400, 404}
    /\ response.detail \in {"already_reconciled", "not_found"}
    /\ response.validated >= 1

\* ---- the automatic pass ----------------------------------------------------
\* the step is an automatic pass
AutoStep == response'.op = "auto"

\* the positions of the pairs the step appended
NewPairIndexes == (Len(matched_pairs) + 1)..Len(matched_pairs')

\* the pairs the step appended, as <<bank id, accounting id>>
NewPairSet ==
    {<<matched_pairs'[k].bankTransactionId,
       matched_pairs'[k].accountingTransactionId>> : k \in NewPairIndexes}

\* the record of a list with a given id
RecordOf(txs, tx_id) == CHOOSE t \in Range(txs) : t.id = tx_id

\* the amounts held by the records of the state
AmountsHeld ==
    {t.amount : t \in Range(bank_transactions)
                       \cup Range(accounting_transactions)}

\* the positions of the records of amount v in a list
Bucket(txs, v) == {i \in DOMAIN txs : txs[i].amount = v}

\* the 0-based rank of record i in its bucket, by ascending date; records
\* of one date rank in the order of the list
RankByDate(txs, i) ==
    Cardinality({j \in Bucket(txs, txs[i].amount) :
                    \/ txs[j].date < txs[i].date
                    \/ txs[j].date = txs[i].date /\ j < i})

\* C3: every pair committed by the automatic pass joins a known bank
\* record and a known accounting record whose amounts (held rounded to
\* 2 decimals) are equal.
C3_AutoPairsEqualAmounts ==
    [][AutoStep =>
         \A p \in NewPairSet :
            /\ p[1] \in IdsOf(bank_transactions)
            /\ p[2] \in IdsOf(accounting_transactions)
            /\ RecordOf(bank_transactions, p[1]).amount
                  = RecordOf(accounting_transactions, p[2]).amount]_vars

\* an automatic pass has just committed two pairs, the records of both
\* signs being present
C3_Witness ==
    /\ response.op = "auto"
    /\ response.created = 2
    /\ \E t \in Range(bank_transactions) : t.amount < 0
    /\ \E t \in Range(bank_transactions) : t.amount > 0

NewPairsOfAmount(v) ==
    {k \in NewPairIndexes :
        /\ RecordOf(bank_transactions,
                    matched_pairs'[k].bankTransactionId).amount = v
        /\ RecordOf(accounting_transactions,
                    matched_pairs'[k].accountingTransactionId).amount = v}

SameRankPairs ==
    {<<unmatched_bank_txs[i].id, unmatched_acc_txs[j].id>> :
        <<i, j>> \in {h \in (DOMAIN unmatched_bank_txs)
                               \X (DOMAIN unmatched_acc_txs) :
            /\ unmatched_bank_txs[h[1]].amount
                  = unmatched_acc_txs[h[2]].amount
            /\ RankByDate(unmatched_bank_txs, h[1])
                  = RankByDate(unmatched_acc_txs, h[2])}}

\* of the records of one amount that were unmatched before the step, none
\* that is still unmatched after it is dated before one that is not
PendingAreLatest(before, after) ==
    \A r \in Range(before), q \in Range(before) :
        (/\ r.amount = q.amount
         /\ r \notin Range(after)
         /\ q \in Range(after)) => r.date <= q.date

AmountsOf(txs) == {txs[i].amount : i \in DOMAIN txs}

\* both unmatched sets are non-empty and share no amount
DisjointAmounts ==
    /\ unmatched_bank_txs # << >>
    /\ unmatched_acc_txs # << >>
    /\ AmountsOf(unmatched_bank_txs) \cap AmountsOf(unmatched_acc_txs) = {}

\* C7: when both unmatched sets are non-empty and their sets of amounts
\* are disjoint, the automatic pass commits no pair and leaves the pair
\* list as it was.
C7_DisjointAmountsNoPair ==
    [][(AutoStep /\ DisjointAmounts) =>
          /\ matched_pairs' = matched_pairs
          /\ response'.created = 0
          /\ response'.status = 200]_vars

\* an automatic pass has just run the matcher on disjoint amounts
C7_Witness ==
    /\ response.op = "auto"
    /\ response.detail = "auto_done"
    /\ response.created = 0
    /\ DisjointAmounts

\* ---- ingestion --------------------------------------------------------------
\* the step is a successful ingestion for the side tx_type
UploadStep(tx_type) ==
    /\ response'.op = "upload"
    /\ response'.status = 200
    /\ response'.detail = tx_type

\* the list holds exactly n records, all created by the step
AllNew(txs, n) ==
    /\ Len(txs) = n
    /\ \A i \in DOMAIN txs :
          txs[i].id \notin IdsOf(bank_transactions)
                              \cup IdsOf(accounting_transactions)

\* C8: a successful ingestion for one side replaces the whole list of that
\* side with the records it created and empties the pair list, whatever
\* pairs existed.
C8_UploadReplacesAndClears ==
    [][/\ UploadStep("bank") =>
            /\ AllNew(bank_transactions', response'.created)
            /\ matched_pairs' = << >>
       /\ UploadStep("accounting") =>
            /\ AllNew(accounting_transactions', response'.created)
            /\ matched_pairs' = << >>]_vars

\* an ingestion for the bank side has just replaced records and discarded
\* pairs, the accounting records of those pairs being still there
C8_Witness ==
    /\ response.op = "upload"
    /\ response.status = 200
    /\ response.detail = "bank"
    /\ response.created >= 1
    /\ response.discarded >= 1
    /\ accounting_transactions # << >>
    /\ matched_pairs = << >>

\* C9: in every reachable state every pair's bank id is the id of a record
\* of the bank list and its accounting id the id of a record of the
\* accounting list.
C9_NoDanglingPair ==
    \A i \in DOMAIN matched_pairs :
        /\ matched_pairs[i].bankTransactionId \in IdsOf(bank_transactions)
        /\ matched_pairs[i].accountingTransactionId
              \in IdsOf(accounting_transactions)

\* pairs are held after a side was ingested a second time: the ids of the
\* first file of that side are gone
C9_Witness ==
    /\ matched_pairs # << >>
    /\ \E t \in Range(bank_transactions) : t.id > 1
    /\ \A t \in Range(bank_transactions)
                   \cup Range(accounting_transactions) : t.id # 1
    /\ \E i \in DOMAIN matched_pairs :
          matched_pairs[i].bankTransactionId > 1

\* C10 as claimed: a manual request (its list not empty) that names an
\* unknown id is answered with the not-found error, even when another id
\* of the request is already in a pair.
C10_NotFoundFirst ==
    /\ \A b \in RequestIds, a \in RequestIds :
          ~ NamesKnownIds({b}, {a}) =>
             reconcile_manual_result(b, a).detail = "not_found"
    /\ \A b \in RequestIds, ids \in NonEmptyIdLists :
          ~ NamesKnownIds({b}, Range(ids)) =>
             reconcile_manual_many_to_one_result(b, ids).detail = "not_found"
    /\ \A a \in RequestIds, ids \in NonEmptyIdLists :
          ~ NamesKnownIds(Range(ids), {a}) =>
             reconcile_manual_one_to_many_result(a, ids).detail = "not_found"

\* ---- manual groups ---------------------------------------------------------
\* the request can pass validation: its list is not empty, every id it
\* names is a known record of its side and none is in a pair
PassesValidation(bank_ids, acc_ids) ==
    /\ bank_ids # {} /\ acc_ids # {}
    /\ NamesKnownIds(bank_ids, acc_ids)
    /\ ~ NamesMatchedId(bank_ids, acc_ids)

\* the result appends exactly the pairs of the set `expected`, each once
AppendsExactly(res, expected) ==
    /\ Range(res.new_pairs) = expected
    /\ Len(res.new_pairs) = Cardinality(expected)

\* C11: a successful manual group commits exactly one pair per distinct id
\* of the many side, all with the single id of the other side: one pair
\* for 1:1; a list with repeated ids is not rejected for the repetition
\* and gives as many pairs as it has distinct ids, none twice.
C11_OnePairPerDistinctId ==
    /\ \A b \in RequestIds, a \in RequestIds :
          LET res == reconcile_manual_result(b, a)
          IN  res.status = 200 =>
                 AppendsExactly(res, {MatchedPair(b, a)})
    /\ \A b \in RequestIds, ids \in IdLists :
          LET res == reconcile_manual_many_to_one_result(b, ids)
          IN  /\ res.status = 200 =>
                    AppendsExactly(res, {MatchedPair(b, a) : a \in Range(ids)})
              /\ (/\ PassesValidation({b}, Range(ids))
                  /\ Len(ids) > Cardinality(Range(ids))) => res.status = 200
    /\ \A a \in RequestIds, ids \in IdLists :
          LET res == reconcile_manual_one_to_many_result(a, ids)
          IN  /\ res.status = 200 =>
                    AppendsExactly(res, {MatchedPair(b, a) : b \in Range(ids)})
              /\ (/\ PassesValidation(Range(ids), {a})
                  /\ Len(ids) > Cardinality(Range(ids))) => res.status = 200

\* a group request whose list names one id twice has just committed one
\* pair
C11_Witness ==
    /\ response.op = "many_to_one"
    /\ response.status = 200
    /\ response.requested = 2
    /\ response.created = 1
    /\ matched_pairs # << >>

\* C12: a manual group whose ids all pass validation is committed whatever
\* the amounts are: the answer is a success and the pairs are appended, with
\* or without the amount warning.
C12_MismatchNeverBlocks ==
    /\ \A b \in RequestIds, a \in RequestIds :
          PassesValidation({b}, {a}) =>
             LET res == reconcile_manual_result(b, a)
             IN  res.status = 200 /\ res.new_pairs # << >>
    /\ \A b \in RequestIds, ids \in IdLists :
          PassesValidation({b}, Range(ids)) =>
             LET res == reconcile_manual_many_to_one_result(b, ids)
             IN  res.status = 200 /\ res.new_pairs # << >>
    /\ \A a \in RequestIds, ids \in IdLists :
          PassesValidation(Range(ids), {a}) =>
             LET res == reconcile_manual_one_to_many_result(a, ids)
             IN  res.status = 200 /\ res.new_pairs # << >>

\* a group of two bank records whose sum is not the amount of the
\* accounting record has just been committed, with the warning
C12_Witness ==
    /\ response.op = "one_to_many"
    /\ response.status = 200
    /\ response.warning
    /\ response.created = 2
    /\ Len(matched_pairs) >= 2

\* the sum of the amounts of the records of a list whose id is
\* in the set ids (each record once)
RECURSIVE SumOfIds(_, _)
SumOfIds(txs, ids) ==
    IF txs = << >> THEN 0
    ELSE (IF Head(txs).id \in ids THEN Head(txs).amount ELSE 0)
            + SumOfIds(Tail(txs), ids)

\* the answer to a successful group carries the warning exactly when the
\* two amounts x and y differ by the tolerance or more
WarnsIffDiffers(op, res, x, y) ==
    res.status = 200 =>
       (ResponseOf(op, res).warning <=> Abs(x - y) >= tolerance)

\* C13 as claimed: the result of a successful manual group carries the
\* warning exactly when the amount of the one-sided record and the sum of
\* the amounts of the distinct records of the other side differ by 0.01
\* or more.
C13_WarningIffDiffers ==
    /\ \A b \in RequestIds, ids \in IdLists :
          WarnsIffDiffers("many_to_one",
                          reconcile_manual_many_to_one_result(b, ids),
                          find_transaction(b, "bank").amount,
                          SumOfIds(accounting_transactions, Range(ids)))
    /\ \A a \in RequestIds, ids \in IdLists :
          WarnsIffDiffers("one_to_many",
                          reconcile_manual_one_to_many_result(a, ids),
                          find_transaction(a, "accounting").amount,
                          SumOfIds(bank_transactions, Range(ids)))

\* ---- the unmatched views ---------------------------------------------------
\* the positions of the list whose record is in no pair on its side
UnpairedPositions(txs, paired_ids) ==
    {i \in DOMAIN txs : txs[i].id \notin paired_ids}

\* view is the list of the records at the positions of the set keep, in
\* the order of the list
IsSelection(view, txs, keep) ==
    /\ Len(view) = Cardinality(keep)
    /\ \A k \in DOMAIN view :
          \E i \in keep :
             /\ view[k] = txs[i]
             /\ Cardinality({j \in keep : j < i}) = k - 1

\* C14: in every reachable state the unmatched view of a side is exactly
\* the records of that side whose id is in no pair on that side, in stored
\* order; every known record is either in the view or named by a pair,
\* never both and never neither.
C14_UnmatchedIsComplement ==
    LET paired_bank == {matched_pairs[k].bankTransactionId :
                           k \in DOMAIN matched_pairs}
        paired_acc  == {matched_pairs[k].accountingTransactionId :
                           k \in DOMAIN matched_pairs}
    IN  /\ IsSelection(unmatched_bank_txs, bank_transactions,
                       UnpairedPositions(bank_transactions, paired_bank))
        /\ IsSelection(unmatched_acc_txs, accounting_transactions,
                       UnpairedPositions(accounting_transactions, paired_acc))
        /\ \A t \in Range(bank_transactions) :
              (t \in Range(unmatched_bank_txs)) <=> (t.id \notin paired_bank)
        /\ \A t \in Range(accounting_transactions) :
              (t \in Range(unmatched_acc_txs)) <=> (t.id \notin paired_acc)

\* the views have just been read in a state where each side has a paired
\* and an unpaired record
C14_Witness ==
    /\ response.op = "initial"
    /\ Len(unmatched_bank_txs) = 1
    /\ Len(bank_transactions) = 2
    /\ Len(unmatched_acc_txs) = 1
    /\ Len(accounting_transactions) = 2
    /\ unmatched_bank_txs[1] = bank_transactions[2]

\* ---- the pair list ----------------------------------------------------------
\* list s is the beginning of list t
IsPrefix(s, t) ==
    /\ Len(s) <= Len(t)
    /\ \A k \in DOMAIN s : s[k] = t[k]

\* C15: across any single operation the pair list either keeps all its
\* pairs, in order, with zero or more pairs appended at the end (automatic
\* pass, manual groups, reads, failed requests), or becomes empty
\* (successful ingestion, confirmed clear).
C15_AppendOrClear ==
    [][/\ IsPrefix(matched_pairs, matched_pairs') \/ matched_pairs' = << >>
       /\ response'.op \in ManualOps \cup {"auto", "initial"} =>
             IsPrefix(matched_pairs, matched_pairs')
       /\ response'.status # 200 => matched_pairs' = matched_pairs
       /\ (response'.op \in {"upload", "clear"} /\ response'.status = 200)
             => matched_pairs' = << >>]_vars

\* a manual pair has just been appended behind an earlier pair
C15_Witness ==
    /\ response.op = "manual"
    /\ response.status = 200
    /\ response.created = 1
    /\ Len(matched_pairs) = 2

\* C16: when either side has no unmatched record, the automatic pass
\* commits no pair, reports success and leaves the state as it was.
C16_AutoWithEmptySide ==
    [][(AutoStep /\ (unmatched_bank_txs = << >> \/ unmatched_acc_txs = << >>))
          => /\ UNCHANGED Db
             /\ response'.status = 200
             /\ response'.created = 0]_vars

\* an automatic pass has just run with records loaded on both sides, all
\* bank records being paired and an accounting record not
C16_Witness ==
    /\ response.op = "auto"
    /\ response.status = 200
    /\ response.created = 0
    /\ bank_transactions # << >>
    /\ unmatched_bank_txs = << >>
    /\ unmatched_acc_txs # << >>

\* ---- rounding of the amounts ----------------------------------------------
\* the rows the automatic pass would compare in this state: the net
\* movement of the ledger rows, and the statement rows
LedgerCompared ==
    ledger_with_movement(accounting_to_dataframe(unmatched_acc_txs))

StatementCompared == bank_to_dataframe(unmatched_bank_txs)

\* C17: every amount held by a record of the state is a whole number of
\* cents (at most 2 fractional digits), and the movements the automatic
\* pass compares are those amounts: the net debito - credito of a ledger
\* row is the stored amount of its record, and so is the movement of a
\* statement row.
C17_OnlyRoundedAmounts ==
    /\ \A tx \in Range(bank_transactions) \cup Range(accounting_transactions) :
          tx.amount % cent = 0
    /\ \A i \in DOMAIN LedgerCompared :
          /\ LedgerCompared[i].movimiento = unmatched_acc_txs[i].amount
          /\ LedgerCompared[i].movimiento % cent = 0
    /\ \A i \in DOMAIN StatementCompared :
          /\ StatementCompared[i].movimiento = unmatched_bank_txs[i].amount
          /\ StatementCompared[i].movimiento % cent = 0

\* an automatic pass has just paired a net credit of the ledger, whose
\* debit and credit columns were rebuilt from the stored amount
C17_Witness ==
    /\ response.op = "auto"
    /\ response.created >= 1
    /\ \E i \in DOMAIN matched_pairs :
          RecordOf(accounting_transactions,
                   matched_pairs[i].accountingTransactionId).amount = 0 - cent

\* ---- the parsing of amounts ---------------------------------------------------
HasChar(text, ch) == \E i \in DOMAIN text : text[i] = ch

\* an amount cell has been given to format_currency
ParsedCell == raw_input.kind = "cell" /\ normalized.done

\* the text with every a turned into b
replaced(text, a, b) ==
    [i \in DOMAIN text |-> IF text[i] = a THEN b ELSE text[i]]

\* the reading of a text in which the period groups the thousands and the
\* comma is the decimal mark: the currency symbol and the blanks around the
\* text are taken off, the periods removed, the comma read as the decimal
\* point
CommaDecimalReading(text) ==
    float_of(replaced(remove(strip(remove(text, "$")), "."), ",", "."))

\* C18 as claimed: an amount text that holds both a comma and a period, and
\* is a number when the period groups the thousands and the comma is the
\* decimal mark, parses to that number ("1.234,56" to 1234.56).
C18_CommaIsDecimalMark ==
    (/\ ParsedCell
     /\ raw_input.cell # NaN
     /\ HasChar(raw_input.cell, ",")
     /\ HasChar(raw_input.cell, ".")
     /\ ~ CommaDecimalReading(raw_input.cell).raised)
        => normalized.value = CommaDecimalReading(raw_input.cell).value

\* a cell that is missing, or is no number: it holds a character that is no
\* part of a number, no digit at all, two periods, or a sign after a digit
NotANumber(cell) ==
    \/ cell = NaN
    \/ HasChar(cell, "x")
    \/ ~ \E i \in DOMAIN cell : cell[i] \in Range(Digits)
    \/ Cardinality({i \in DOMAIN cell : cell[i] = "."}) >= 2
    \/ \E i \in DOMAIN cell :
          i > 1 /\ cell[i] = "-" /\ cell[i - 1] \in Range(Digits)

\* the rows of a file that a transform has to keep: those whose date is
\* resolved and, in a statement, whose description is not an excluded one
KeptRow(row, format_id) ==
    IF FILE_FORMAT_CONFIGS[format_id].type = "bank"
    THEN /\ format_date_robust(row.fecha_raw) # NoDate
         /\ strip_upper(row.descripcion_raw)
               \notin EXTRACTO_VALORES_A_EXCLUIR_DESC
    ELSE format_date_robust(row.Fecha) # NoDate

KeptRows == SelectSeq(raw_input.rows,
                      LAMBDA row : KeptRow(row, raw_input.format_id))

\* a file has been given to the upload
IngestedFile == raw_input.kind = "file" /\ normalized.done

\* the amount an amount cell of a file stands for
CellAmount(cell) ==
    IF NotANumber(cell) THEN 0 ELSE float_amount(format_currency(cell).value)

StoredSide ==
    IF FILE_FORMAT_CONFIGS[raw_input.format_id].type = "bank"
    THEN bank_transactions ELSE accounting_transactions

RowDate(row, format_id) ==
    IF FILE_FORMAT_CONFIGS[format_id].type = "bank"
    THEN format_date_robust(row.fecha_raw)
    ELSE format_date_robust(row.Fecha)

\* C20: no record of the state has a null date, and the records an upload
\* stores are those of the rows the transform has to keep, each with the
\* date of its row: the rows whose date is not resolved are dropped.
C20_NoUndatedRecord ==
    /\ \A tx \in Range(bank_transactions) \cup Range(accounting_transactions) :
          tx.date # NoDate
    /\ \A tx \in Range(unmatched_bank_txs) \cup Range(unmatched_acc_txs) :
          tx.date # NoDate
    /\ IngestedFile =>
          /\ Len(StoredSide) = Len(KeptRows)
          /\ \A i \in DOMAIN KeptRows :
                StoredSide[i].date = RowDate(KeptRows[i], raw_input.format_id)

\* a statement has been ingested whose first row has a date that is not
\* resolved and whose second row has one: one record is stored
C20_Witness ==
    /\ IngestedFile
    /\ response.status = 200
    /\ Len(raw_input.rows) = 2
    /\ FILE_FORMAT_CONFIGS[raw_input.format_id].type = "bank"
    /\ format_date_robust(raw_input.rows[1].fecha_raw) = NoDate
    /\ Len(bank_transactions) = 1
    /\ bank_transactions[1].date
          = format_date_robust(raw_input.rows[2].fecha_raw)

\* ---- the requests on the event loop: properties ------------------------------
\* the step is the answer to an upload with an unknown format id: the
\* answer is given and no request is suspended or resumed
UnknownFormatStep ==
    /\ response'.op = "upload"
    /\ response'.detail = "unknown_format"
    /\ UNCHANGED suspended

\* C22: an upload whose format id is not registered is answered with the
\* unknown-format error (HTTP 400) before the file is read, so that no
\* request with such an id is ever suspended at file.read(), and the step
\* leaves both record lists and the pair list as they were.
C22_UnknownFormatBeforeRead ==
    /\ [](\A k \in DOMAIN suspended :
             suspended[k].handler = "upload" =>
                suspended[k].format_id \in DOMAIN FILE_FORMAT_CONFIGS)
    /\ [][UnknownFormatStep =>
            /\ response'.status = 400
            /\ UNCHANGED Db]_vars

\* an unknown format id was just rejected in a state that holds records and
\* a pair, while another upload is suspended at file.read()
C22_Witness ==
    /\ response.op = "upload"
    /\ response.detail = "unknown_format"
    /\ bank_transactions # << >>
    /\ matched_pairs # << >>
    /\ suspended # << >>

\* ---- the ids of the records: properties -----------------------------------------
\* the records of both lists
KnownRecords ==
    [i \in 1..Len(bank_transactions) |-> bank_transactions[i]]
        \o accounting_transactions

\* C23: in every reachable state the known records, within a side and
\* across both sides, have pairwise distinct ids, so that the lookup of a
\* known id finds exactly one record.
C23_DistinctIds ==
    /\ \A i \in DOMAIN KnownRecords, j \in DOMAIN KnownRecords :
          i # j => KnownRecords[i].id # KnownRecords[j].id
    /\ \A tx \in Range(KnownRecords) :
          /\ find_transaction(tx.id, tx.type) = tx
          /\ Cardinality({i \in DOMAIN TransactionList(tx.type) :
                             TransactionList(tx.type)[i].id = tx.id}) = 1

\* ---- the debit and credit of an accounting record ----------------------------
\* the ledger rows rebuilt from all the stored accounting records
RebuiltLedger == accounting_to_dataframe(accounting_transactions)

\* C24: for every stored accounting record of signed amount m, the rebuilt
\* ledger row has debito = m if m >= 0 else 0 and credito = -m if m < 0
\* else 0; both are non-negative, at most one is not zero, and the net
\* movement debito - credito that the matcher computes is m.
C24_DebitCreditRoundTrip ==
    \A i \in DOMAIN accounting_transactions :
        LET m   == accounting_transactions[i].amount
            row == RebuiltLedger[i]
        IN  /\ row.debito = (IF m >= 0 THEN m ELSE 0)
            /\ row.credito = (IF m < 0 THEN 0 - m ELSE 0)
            /\ row.debito >= 0
            /\ row.credito >= 0
            /\ row.debito = 0 \/ row.credito = 0
            /\ row.debito - row.credito = m
            /\ ledger_with_movement(RebuiltLedger)[i].movimiento = m
            /\ ledger_with_movement(RebuiltLedger)[i].tx_id_ref
                  = accounting_transactions[i].id

\* the ledger holds a net debit and a net credit, and an automatic pass has
\* just paired both with bank records
C24_Witness ==
    /\ response.op = "auto"
    /\ response.created = 2
    /\ Len(matched_pairs) = 2
    /\ \E t \in Range(accounting_transactions) : t.amount < 0
    /\ \E t \in Range(accounting_transactions) : t.amount > 0

\* ---- the shape of the pair list -------------------------------------------------
\* the positions of the other pairs with the bank id / the accounting id
\* of pair i
SameBank(i) ==
    {j \in DOMAIN matched_pairs \ {i} :
        matched_pairs[j].bankTransactionId
           = matched_pairs[i].bankTransactionId}

SameAccounting(i) ==
    {j \in DOMAIN matched_pairs \ {i} :
        matched_pairs[j].accountingTransactionId
           = matched_pairs[i].accountingTransactionId}

\* the pair graph is a disjoint union of stars, without a repeated pair
StarGraph ==
    \A i \in DOMAIN matched_pairs :
        /\ SameBank(i) = {} \/ SameAccounting(i) = {}
        /\ SameBank(i) \cap SameAccounting(i) = {}

\* no pair the step appends names an id that a pair of the state before
\* the step names
AppendsOnUnpairedIds ==
    \A p \in NewPairSet :
        /\ ~ bank_is_matched(p[1], matched_pairs)
        /\ ~ accounting_is_matched(p[2], matched_pairs)

\* C25: in every reachable state, for every pair (b, a), b is in no other
\* pair or a is in no other pair, and no pair is in the list twice; every
\* step appends pairs only on ids that no earlier pair names, so that all
\* the pairs of one id come from one single action.
C25_PairGraphOfStars ==
    /\ []StarGraph
    /\ [][AppendsOnUnpairedIds]_vars

\* a group request has just appended two pairs that share their bank id
C25_Witness ==
    /\ response.op = "many_to_one"
    /\ response.created = 2
    /\ Len(matched_pairs) = 2
    /\ SameBank(1) = {2}
    /\ SameAccounting(1) = {}

\* ---- the pairs of one automatic pass -------------------------------------------
\* C26: the pairs one automatic pass commits are a one-to-one matching
\* among the records that were unmatched when the pass started: no bank id
\* and no accounting id is in two of the new pairs, every new pair joins a
\* record of the unmatched bank view and one of the unmatched accounting
\* view, none of its ids is in a pair that existed before the pass, and the
\* pairs that existed are kept.
C26_AutoPassIsMatching ==
    [][AutoStep =>
         /\ IsPrefix(matched_pairs, matched_pairs')
         /\ \A k \in NewPairIndexes, l \in NewPairIndexes :
               k # l =>
                  /\ matched_pairs'[k].bankTransactionId
                        # matched_pairs'[l].bankTransactionId
                  /\ matched_pairs'[k].accountingTransactionId
                        # matched_pairs'[l].accountingTransactionId
         /\ \A p \in NewPairSet :
               /\ p[1] \in IdsOf(unmatched_bank_txs)
               /\ p[2] \in IdsOf(unmatched_acc_txs)
               /\ p[1] \notin matched_bank_ids(matched_pairs)
               /\ p[2] \notin matched_acc_ids(matched_pairs)]_vars

\* an automatic pass has just committed one pair next to a manual pair of
\* records of the same amount as the new pair
C26_Witness ==
    /\ response.op = "auto"
    /\ response.created = 1
    /\ Len(matched_pairs) = 2
    /\ RecordOf(bank_transactions, matched_pairs[1].bankTransactionId).amount
          = RecordOf(bank_transactions,
                     matched_pairs[2].bankTransactionId).amount
    /\ RecordOf(accounting_transactions,
                matched_pairs[1].accountingTransactionId).amount
          = RecordOf(accounting_transactions,
                     matched_pairs[2].accountingTransactionId).amount
    /\ ~ response.after_auto

\* ---- what an automatic pass leaves --------------------------------------------
\* no amount is held both by an unmatched bank record and by an unmatched
\* accounting record
NoCommonAmount ==
    AmountsOf(unmatched_bank_txs) \cap AmountsOf(unmatched_acc_txs) = {}

FailedUploadStep ==
    /\ Len(suspended') < Len(suspended)
    /\ response'.op = "upload"
    /\ response'.status # 200

\* C28: an ingestion that fails after its format id was accepted leaves
\* the reconciliation state as it was: both record lists, in particular
\* the one of the side of the file, and the pair list are unchanged, and
\* the answer is an error (HTTP 400 or 500).
C28_FailedUploadKeepsState ==
    [][FailedUploadStep =>
          /\ UNCHANGED Db
          /\ response'.status \in {400, 500}
          /\ response'.detail \in {"read_failed", "processing_failed",
                                   "missing_columns"}]_vars

\* the processing of a file has just failed in a state that holds records
\* on both sides and a pair
C28_Witness ==
    /\ response.op = "upload"
    /\ response.detail = "processing_failed"
    /\ bank_transactions # << >>
    /\ accounting_transactions # << >>
    /\ matched_pairs # << >>

\* ---- the other side of an ingestion ------------------------------------------
\* the step resumes an upload and stores the records of the side tx_type
StoreStep(tx_type) ==
    /\ Len(suspended') < Len(suspended)
    /\ UploadStep(tx_type)

\* C29: a successful ingestion for one side leaves the list of the other
\* side as it was (same records, same ids, same order), and after it every
\* record of the other side is unmatched: the unmatched view of that side
\* is its whole list.
C29_OtherSideUntouched ==
    [][/\ StoreStep("bank") =>
            /\ accounting_transactions' = accounting_transactions
            /\ unmatched_acc_txs' = accounting_transactions
       /\ StoreStep("accounting") =>
            /\ bank_transactions' = bank_transactions
            /\ unmatched_bank_txs' = bank_transactions]_vars

\* an ingestion for the accounting side has just discarded a pair; the
\* bank record of that pair is still there and is unmatched again
C29_Witness ==
    /\ response.op = "upload"
    /\ response.status = 200
    /\ response.detail = "accounting"
    /\ response.discarded >= 1
    /\ response.created >= 1
    /\ bank_transactions # << >>
    /\ unmatched_bank_txs = bank_transactions

\* ---- interleaved requests -------------------------------------------------------
\* every pair joins a record of the bank list and one of the accounting list
PairsOfKnownRecords ==
    \A i \in DOMAIN matched_pairs :
        /\ find_transaction(matched_pairs[i].bankTransactionId, "bank") # None
        /\ find_transaction(matched_pairs[i].accountingTransactionId,
                            "accounting") # None

\* the ids of the pairs the step appends pass, in the state the step
\* starts from, the validation of the handlers: they are ids of records
\* of that state
AppendsOnKnownIds ==
    \A p \in NewPairSet :
        /\ p[1] \in IdsOf(bank_transactions)
        /\ p[2] \in IdsOf(accounting_transactions)

\* C30: under every interleaving of the requests at their await points,
\* the validation and the commit of a manual request or of an automatic
\* pass are one step: the pairs a step appends are valid in the state the
\* step starts from (known ids, in no pair), so of two requests that name
\* the same id only the first commits; in every reachable state no pair
\* dangles and all the pairs of an id come from one action (the pair graph
\* is a union of stars).
C30_ValidateAndCommitAtomic ==
    /\ [](PairsOfKnownRecords /\ StarGraph)
    /\ [][AppendsOnKnownIds /\ AppendsOnUnpairedIds]_vars

\* while an upload was suspended at file.read(), a group request has been
\* validated and has committed two pairs
C30_Witness ==
    /\ suspended # << >>
    /\ suspended[1].handler = "upload"
    /\ suspended[1].seen = 0
    /\ response.op = "one_to_many"
    /\ response.created = 2
    /\ Len(matched_pairs) = 2

\* ---- the header of the auxiliary book: properties -------------------------------
\* a sheet has been ingested
IngestedSheet == raw_input.kind = "sheet" /\ normalized.done

\* the spellings of the four labels that the sheets hold
FechaLabels == {AUXILIAR_FECHA, LabelFechaUpper}

DocumentoLabels == {AUXILIAR_DOCUMENTO}

DebitoLabels == {AUXILIAR_DEBITO, LabelDebitos}

CreditoLabels == {AUXILIAR_CREDITO, LabelCreditos}

\* the row holds a label of each of the four kinds, in any of its cells
HoldsAllLabels(row) ==
    /\ Range(row.cells) \cap FechaLabels # {}
    /\ Range(row.cells) \cap DocumentoLabels # {}
    /\ Range(row.cells) \cap DebitoLabels # {}
    /\ Range(row.cells) \cap CreditoLabels # {}

\* the rows of the sheet that are not empty: some cell holds more than
\* blanks
NonEmptyRows ==
    SelectSeq(raw_input.rows,
              LAMBDA row : \E j \in DOMAIN row.cells :
                              /\ row.cells[j] # NaN
                              /\ \E n \in DOMAIN row.cells[j] :
                                    row.cells[j][n] # " ")

\* the positions (from 1) of the rows of labels among the first
\* max_rows_to_scan non-empty rows
HeadersInWindow ==
    {i \in DOMAIN NonEmptyRows :
        i <= max_rows_to_scan /\ HoldsAllLabels(NonEmptyRows[i])}

\* the rows below the first row of labels that have a date
DatedBelowHeader ==
    SelectSeq(SubSeq(NonEmptyRows, MinOf(HeadersInWindow) + 1,
                     Len(NonEmptyRows)),
              LAMBDA row : format_date_robust(row.Fecha) # NoDate)

\* C21: the header of a sheet is the first of its rows of labels among the
\* first 50 non-empty rows, and only the rows below it are data: the
\* records stored are those of the dated rows below it, in order.  When no
\* row of the window holds all the labels (a label is missing, or the
\* header is at index 50 or later), the transform gives None, the upload
\* is answered with an error (HTTP 400) and no record is stored.
C21_HeaderIsFirstInWindow ==
    IngestedSheet =>
       IF HeadersInWindow = {}
       THEN /\ normalized.none
            /\ response.status = 400
            /\ accounting_transactions = << >>
       ELSE IF DatedBelowHeader = << >>
       THEN /\ normalized.none
            /\ accounting_transactions = << >>
       ELSE /\ ~ normalized.none
            /\ response.status = 200
            /\ Len(accounting_transactions) = Len(DatedBelowHeader)
            /\ \A i \in DOMAIN DatedBelowHeader :
                  accounting_transactions[i].date
                     = format_date_robust(DatedBelowHeader[i].Fecha)

\* a sheet has been ingested whose header is the last row of the window
\* (the blank row above it does not count), below dated rows that are no
\* data, and above a second row of labels and two rows of data
C21_Witness ==
    /\ IngestedSheet
    /\ response.status = 200
    /\ Len(raw_input.rows) = max_rows_to_scan + 4
    /\ raw_input.rows[max_rows_to_scan - 1] = LeadRow
    /\ raw_input.rows[max_rows_to_scan] = BlankRow
    /\ raw_input.rows[max_rows_to_scan + 1] = HeaderRow
    /\ raw_input.rows[max_rows_to_scan + 2] = HeaderRowPlain
    /\ Len(accounting_transactions) = 2

=============================================================================
